---- MODULE Spec2Model ----
(***************************************************************************)
(* State-machine model of the stockalert divergence pipeline:              *)
(*   - MonitorManager   (app/services/monitor_manager.py)                  *)
(*   - MonitorService   (app/services/monitor_service.py)                  *)
(*   - HistoricalDataLoader (app/services/historical_loader.py)            *)
(*   - the divergence detector (app/divergence.py)                         *)
(*   - the indicators (app/indicators/rsi.py, tsi.py)                      *)
(*   - the websocket broadcast (app/main_api.py)                           *)
(*   - the feed handler (app/providers/alpaca_provider.py)                 *)
(* The specifications of the module:                                       *)
(*   Spec        the manager, its Service tasks and the shared feed        *)
(*   SpecLoader  one load_bars call against store, cache and provider      *)
(*   SpecService one streaming MonitorService processing live bars         *)
(*   SpecStore   a load_bars call and a streaming Service on one table     *)
(*   SpecKey     _get_key applied to two requests                          *)
(*   SpecDetect  one call of a divergence detector                         *)
(*   SpecPivot   one call of a pivot finder                                *)
(*   SpecBroadcast  websockets connecting, disconnecting, one broadcast    *)
(*   SpecIndicator  one call of RSI.compute or TSI.compute                 *)
(*   SpecRun     one Service from creation on, the feed thread, the loop   *)
(*   SpecShort   a streaming Service after a short warm load               *)
(*   SpecMargin  the provider tier's range for any lookback and margin     *)
(*   SpecGate    one detector call on a window shorter than the trend EMA  *)
(***************************************************************************)
EXTENDS Integers, Sequences, FiniteSets, TLC

VARIABLES
    \* ---- MonitorManager / feed ----
    monitors,       \* self.monitors: insertion-ordered registry, a sequence of entries
    tasks,          \* every asyncio task ever created for a Service, by task id
    provider,       \* self.provider: "none" until the lazy get_provider()
    data_provider,  \* settings.data_provider, fixed when the process starts
    subs,           \* the stream's handler table: symbol -> owning task id (0 = none)
    started,        \* AlpacaProvider._started
    main_loop,      \* AlpacaProvider._main_loop captured (TRUE) or None (FALSE)
    sa,             \* the stop_all coroutine: where it is suspended
    lastOp,         \* the last Manager call or task event with its outcome
    \* ---- HistoricalDataLoader ----
    db,             \* rows of the bars table for the symbol: [id, ts, by]
    parquet,        \* timestamps in the symbol's parquet file
    upstream,       \* timestamps the provider can return for the symbol
    use_parquet_cache, \* self.use_parquet_cache
    ld,             \* the load_bars call in progress
    \* ---- MonitorService ----
    buffers,        \* self.buffers[symbol]: sequence of bars
    signals,        \* rows of the signals table, in insertion order
    broadcasts,     \* payloads handed to broadcast_cb, in order
    pending,        \* raw-bar persistence tasks created and not yet run
    inflight,       \* _process_bar coroutines suspended after a detector hit
    processed,      \* number of live bars _process_bar has handled
    use_trend_filter, \* settings.use_trend_filter
    broadcast_cb,   \* self.broadcast_cb is set
    \* ---- pure functions ----
    call,           \* a call of a pure function: its name, arguments and result
    \* ---- API process (app/main_api.py) ----
    active_connections, \* the module's list of accepted websockets
    ws_state,       \* each websocket: "new", "open" or "closed" by its client
    bc,             \* the broadcast_signal coroutine in progress
    \* ---- the feed thread and the event loop ----
    warm,           \* per task: what load_bars returned for each symbol so far
    nsub,           \* per task: calls of provider.subscribe_bars made
    delivered,      \* bars the feed thread has delivered to handlers, a count
    loopq,          \* callbacks handed to the event loop, first in first out
    svclog,         \* per task: the bars _process_bar appended and examined
    dropped,        \* bars a handler dropped
    suspended       \* on_bar coroutines suspended in _persist_signal/broadcast

mgrVars == <<monitors, tasks, provider, data_provider, subs, started, main_loop, sa, lastOp>>
ldVars  == <<db, parquet, upstream, use_parquet_cache, ld>>
svcVars == <<buffers, signals, broadcasts, pending, inflight, processed,
            use_trend_filter, broadcast_cb>>
fnVars  == <<call>>
apiVars == <<active_connections, ws_state, bc>>
runVars == <<warm, nsub, delivered, loopq, svclog, dropped, suspended>>
envVars == <<apiVars, runVars>>
vars    == <<mgrVars, ldVars, svcVars, fnVars, envVars>>

(***************************************************************************)
(* Bounds of the model.                                                    *)
(***************************************************************************)
MaxTasks == 2        \* Service tasks created in one run

(***************************************************************************)
(* Inputs of the Manager.                                                  *)
(***************************************************************************)
Symbols == {"A", "B"}
TickerLists == {<<"A">>, <<"B", "A">>}
INDICATOR_MAP == {"rsi", "macd", "tsi"}
DETECTOR_MAP == {"hidden_bullish_divergence", "hidden_bearish_divergence",
                 "regular_bullish_divergence", "regular_bearish_divergence"}
\* the requests made of the Manager: every ticker list with known names, and one
\* request with an unknown indicator name
Configs ==
    [tickers : TickerLists, indicator : {"rsi"},
     signal_type : {"hidden_bullish_divergence"}]
    \cup {[tickers |-> <<"A">>, indicator |-> "bogus",
           signal_type |-> "hidden_bullish_divergence"]}

SeqToSet(s) == {s[i] : i \in 1..Len(s)}

\* A string is the sequence of its pieces: the characters "," ":" "A" "B" and
\* the indicator and signal-type names, which contain no separator.
CodePoint == [c \in {",", ":", "A", "B"} |->
                 CASE c = "," -> 44 [] c = ":" -> 58 [] c = "A" -> 65 [] c = "B" -> 66]

\* str < str of Python: the first differing character decides, a proper prefix
\* is smaller
RECURSIVE StrLess(_, _)
StrLess(a, b) ==
    IF Len(b) = 0 THEN FALSE
    ELSE IF Len(a) = 0 THEN TRUE
    ELSE IF a[1] # b[1] THEN CodePoint[a[1]] < CodePoint[b[1]]
    ELSE StrLess(Tail(a), Tail(b))

\* sep.join(strs)
RECURSIVE Join(_, _)
Join(strs, sep) ==
    IF Len(strs) = 0 THEN <<>>
    ELSE IF Len(strs) = 1 THEN strs[1]
    ELSE strs[1] \o sep \o Join(Tail(strs), sep)

\* _get_key: f"{','.join(sorted(tickers))}:{indicator}:{signal_type}"
GetKey(tickers, indicator, signal_type) ==
    Join(SortSeq(tickers, StrLess), <<",">>) \o <<":">> \o indicator
       \o <<":">> \o signal_type

\* the key of a request of the Manager, whose symbols are single characters
ConfigKey(c) ==
    GetKey([i \in 1..Len(c.tickers) |-> <<c.tickers[i]>>], <<c.indicator>>,
           <<c.signal_type>>)

\* key in self.monitors
HasKey(ms, k) == \E i \in 1..Len(ms) : ms[i].key = k
\* self.monitors[key]
Entry(ms, k) == ms[CHOOSE i \in 1..Len(ms) : ms[i].key = k]
\* A deletion that leaves the registry as it is.
DelKeyNever(ms, k) == ms

\* del self.monitors[key]
DelKey(ms, k) == SelectSeq(ms, LAMBDA e : e.key # k)

\* task.done()
TaskDone(ts, t) == ts[t].status # "running"

NoCall == [fn |-> "none"]

NoOp == [op |-> "none", key |-> <<>>, result |-> "none", created |-> 0, evicted |-> 0,
         cancelled |-> 0, unsub |-> {}, listing |-> <<>>]


(***************************************************************************)
(* MonitorManager.start_monitor                                            *)
(***************************************************************************)
\* settings.data_provider: the supported feed, or a name get_provider rejects
DataProviders == {"alpaca", "bogus"}

\* A start_monitor that never takes the already-running branch.
AlreadyRunningNever(ms, ts, key) == FALSE

\* lines 95-97: the key is registered and its task has not finished
AlreadyRunning(ms, ts, key) ==
    HasKey(ms, key) /\ ~TaskDone(ts, Entry(ms, key).task)

\* config.get_provider: the provider built for settings.data_provider
GetProviderRaises == data_provider \notin {"alpaca", "polygon"}

\* MonitorService.__init__ lines 74-81: raises ValueError on an unknown name
ServiceInitRaises(c) ==
    c.indicator \notin INDICATOR_MAP \/ c.signal_type \notin DETECTOR_MAP

NewTask(key, tickers) ==
    [key |-> key, tickers |-> tickers, status |-> "running",
     cancel |-> FALSE, phase |-> "loading"]

StartMonitor(c) ==
    LET key == ConfigKey(c)
        ms1 == DelKey(monitors, key)          \* line 107, a no-op when the key is absent
        prov == IF provider = "none" THEN data_provider ELSE provider
        id == Len(tasks) + 1
        \* lines 104-107: the finished task whose entry is deleted
        old == IF HasKey(monitors, key) THEN Entry(monitors, key).task ELSE 0
    IN
    /\ UNCHANGED <<data_provider, subs, started, main_loop, sa>>
    /\ IF AlreadyRunning(monitors, tasks, key)
       THEN /\ lastOp' = [NoOp EXCEPT !.op = "start", !.key = key,
                                      !.result = "already_running"]
            /\ UNCHANGED <<monitors, tasks, provider>>
       ELSE IF provider = "none" /\ GetProviderRaises
       THEN \* line 111 raises ValueError; nothing in start_monitor catches it
            /\ monitors' = ms1
            /\ lastOp' = [NoOp EXCEPT !.op = "start", !.key = key, !.result = "raised",
                                      !.evicted = old]
            /\ UNCHANGED <<tasks, provider>>
       ELSE IF ServiceInitRaises(c)
       THEN /\ monitors' = ms1
            /\ provider' = prov
            /\ lastOp' = [NoOp EXCEPT !.op = "start", !.key = key, !.result = "error",
                                      !.evicted = old]
            /\ UNCHANGED tasks
       ELSE /\ Len(tasks) < MaxTasks
            /\ tasks' = Append(tasks, NewTask(key, c.tickers))
            /\ monitors' = Append(ms1, [key |-> key, task |-> id, tickers |-> c.tickers,
                                        indicator |-> c.indicator,
                                        signal_type |-> c.signal_type])
            /\ provider' = prov
            /\ lastOp' = [NoOp EXCEPT !.op = "start", !.key = key,
                                      !.result = "started", !.created = id,
                                      !.evicted = old]

(***************************************************************************)
(* MonitorManager.stop_monitor                                             *)
(***************************************************************************)
\* AlpacaProvider.unsubscribe_bars: the handlers of the symbols in `gone` are dropped
Unsubscribe(sb, gone) == [s \in Symbols |-> IF s \in gone THEN 0 ELSE sb[s]]

\* A stop_monitor that unsubscribes the request's tickers before looking up the key.
StopNotFoundSubsEager(sb, tickers) == Unsubscribe(sb, SeqToSet(tickers))

\* lines 168-173: the not-found return leaves the feed alone
StopNotFoundSubs(sb, tickers) == sb

\* A stop_monitor that keeps the entry when unsubscribing failed.
StopRegistryKeepOnFailure(ms, key, unsubFailed) ==
    IF unsubFailed THEN ms ELSE DelKey(ms, key)

\* line 191: the entry is deleted whatever happened before
StopRegistry(ms, key, unsubFailed) == DelKey(ms, key)

StopMonitor(c) ==
    LET key == ConfigKey(c) IN
    /\ UNCHANGED <<data_provider, provider, started, main_loop, sa>>
    /\ IF ~HasKey(monitors, key)
       THEN /\ lastOp' = [NoOp EXCEPT !.op = "stop", !.key = key, !.result = "not_found"]
            /\ subs' = StopNotFoundSubs(subs, c.tickers)
            /\ UNCHANGED <<monitors, tasks>>
       ELSE LET info == Entry(monitors, key)
                t == info.task
                doCancel == ~TaskDone(tasks, t)
                syms == SeqToSet(info.tickers)
            IN
            \* lines 179-180
            /\ tasks' = IF doCancel THEN [tasks EXCEPT ![t].cancel = TRUE] ELSE tasks
            \* lines 184-188: the call may fail for any of the symbols; a fault is
            \* caught and logged, by the provider or by stop_monitor
            /\ \E gone \in {syms, {}} :
                 /\ subs' = IF provider # "none" THEN Unsubscribe(subs, gone) ELSE subs
                 /\ monitors' = StopRegistry(monitors, key, gone # syms)
                 /\ lastOp' = [NoOp EXCEPT !.op = "stop", !.key = key,
                                  !.result = IF gone = syms THEN "stopped"
                                             ELSE "stopped_unsub_failed",
                                  !.cancelled = IF doCancel THEN t ELSE 0,
                                  !.unsub = IF provider # "none" THEN syms ELSE {}]

(***************************************************************************)
(* MonitorManager.list_monitors                                            *)
(***************************************************************************)
\* A status derivation that does not look at how a finished task ended.
TaskStatusDoneIsCompleted(ts, t) ==
    IF ~TaskDone(ts, t) THEN "running" ELSE "completed"

\* lines 49-62
TaskStatus(ts, t) ==
    IF ~TaskDone(ts, t) THEN "running"
    ELSE IF ts[t].status = "cancelled" THEN "cancelled"
    ELSE IF ts[t].status = "failed" THEN "failed"
    ELSE "completed"

\* A listing that leaves out the instances whose task ended with a fault.
ListResultDropFailed(ms, ts) ==
    LET kept == SelectSeq(ms, LAMBDA e : ts[e.task].status # "failed")
    IN  [i \in 1..Len(kept) |-> [key |-> kept[i].key,
                                 status |-> TaskStatus(ts, kept[i].task)]]

\* lines 43-71: one entry per registered key, in registry order
ListResult(ms, ts) ==
    [i \in 1..Len(ms) |-> [key |-> ms[i].key, status |-> TaskStatus(ts, ms[i].task)]]

ListMonitors ==
    /\ lastOp' = [NoOp EXCEPT !.op = "list", !.result = "listed",
                              !.listing = ListResult(monitors, tasks)]
    /\ UNCHANGED <<monitors, tasks, provider, data_provider, subs, started, main_loop, sa>>

(***************************************************************************)
(* MonitorManager.stop_all: a coroutine, suspended at each `await task`    *)
(***************************************************************************)
\* pc: where the coroutine is; cur: the task awaited; rest: the entries of the
\* snapshot still to visit; all: the snapshot of line 209; faults: awaited tasks
\* whose fault was caught at lines 217-218
SaIdle == [pc |-> "idle", cur |-> 0, rest |-> <<>>, all |-> <<>>, faults |-> 0]

\* A loop that gives up at the first entry whose task has already finished.
FirstRunningHeadOnly(ts, rest) ==
    IF Len(rest) > 0 /\ ~TaskDone(ts, rest[1]) THEN 1 ELSE 0

\* position in `rest` of the first task that has not finished (0: none)
FirstRunning(ts, rest) ==
    IF \E i \in 1..Len(rest) : ~TaskDone(ts, rest[i])
    THEN CHOOSE i \in 1..Len(rest) :
            /\ ~TaskDone(ts, rest[i])
            /\ \A j \in 1..(i - 1) : TaskDone(ts, rest[j])
    ELSE 0

\* lines 209-228 from the loop position `rest` up to the next suspension
StopAllRun(all, rest, faults) ==
    LET i == FirstRunning(tasks, rest) IN
    IF i = 0
    THEN \* loop finished: stop_stream (lines 221-226), then clear()
         /\ started' = FALSE
         /\ main_loop' = IF provider # "none" /\ started THEN FALSE ELSE main_loop
         /\ monitors' = <<>>
         /\ sa' = [SaIdle EXCEPT !.all = all, !.faults = faults]
         /\ lastOp' = [NoOp EXCEPT !.op = "stop_all", !.result = "done"]
         /\ UNCHANGED tasks
    ELSE \* lines 211-214: cancel, then wait for the task
         /\ tasks' = [tasks EXCEPT ![rest[i]].cancel = TRUE]
         /\ sa' = [pc |-> "await", cur |-> rest[i],
                   rest |-> SubSeq(rest, i + 1, Len(rest)),
                   all |-> all, faults |-> faults]
         /\ lastOp' = [NoOp EXCEPT !.op = "stop_all", !.result = "awaiting",
                                   !.cancelled = rest[i]]
         /\ UNCHANGED <<monitors, started, main_loop>>

StopAllBegin ==
    /\ sa.pc = "idle"
    /\ LET snapshot == [i \in 1..Len(monitors) |-> monitors[i].task]
       IN  StopAllRun(snapshot, snapshot, 0)
    /\ UNCHANGED <<provider, data_provider, subs>>

\* `await task` returns or raises once the task is done; CancelledError and any
\* other Exception are caught (lines 215-218) and the loop goes on
StopAllResume ==
    /\ sa.pc = "await"
    /\ TaskDone(tasks, sa.cur)
    /\ StopAllRun(sa.all, sa.rest,
                  sa.faults + (IF tasks[sa.cur].status = "failed" THEN 1 ELSE 0))
    /\ UNCHANGED <<provider, data_provider, subs>>

(***************************************************************************)
(* The Service task (MonitorService.monitor) as the Manager sees it        *)
(***************************************************************************)
\* the coroutine has ended: the pending cancellation request is consumed and the
\* task is at no suspension point any more
EndTask(rec, how) == [rec EXCEPT !.status = how, !.cancel = FALSE, !.phase = "ended"]

\* monitor() line 160 -> AlpacaProvider.subscribe_bars lines 155-189
TaskSubscribe(t) ==
    /\ t \in 1..Len(tasks)
    /\ tasks[t].status = "running"
    /\ ~tasks[t].cancel
    /\ tasks[t].phase = "loading"
    /\ UNCHANGED <<monitors, provider, data_provider, sa>>
    /\ subs' = [s \in Symbols |-> IF s \in SeqToSet(tasks[t].tickers) THEN t ELSE subs[s]]
    /\ main_loop' = TRUE
    /\ started' = TRUE
    /\ tasks' = [tasks EXCEPT ![t].phase = "streaming"]
    /\ lastOp' = [NoOp EXCEPT !.op = "task", !.result = "subscribed"]

\* the CancelledError is delivered at the task's suspension point (lines 175-177)
TaskCancelled(t) ==
    /\ t \in 1..Len(tasks)
    /\ tasks[t].status = "running"
    /\ tasks[t].cancel
    /\ tasks' = [tasks EXCEPT ![t] = EndTask(@, "cancelled")]
    /\ lastOp' = [NoOp EXCEPT !.op = "task", !.result = "cancelled"]
    /\ UNCHANGED <<monitors, provider, data_provider, subs, started, main_loop, sa>>

\* an uncaught fault ends the coroutine
TaskFail(t) ==
    /\ t \in 1..Len(tasks)
    /\ tasks[t].status = "running"
    /\ tasks' = [tasks EXCEPT ![t] = EndTask(@, "failed")]
    /\ lastOp' = [NoOp EXCEPT !.op = "task", !.result = "failed"]
    /\ UNCHANGED <<monitors, provider, data_provider, subs, started, main_loop, sa>>

(***************************************************************************)
(* HistoricalDataLoader.load_bars                                          *)
(* Timestamps are integer ticks; a DataFrame is the ascending sequence of  *)
(* the timestamps of its rows.                                             *)
(***************************************************************************)
Now == 30             \* datetime.now() of the call, in ticks
TicksPerDay == 4      \* ticks in one day of the time axis

monitor_preload_days == 5
SufficiencyNum == 4   \* settings.data_sufficiency_threshold = 0.8 = 4/5
SufficiencyDen == 5
FetchLimitNum == 6    \* the 1.2 of _load_from_database = 6/5
FetchLimitDen == 5
SafetyMarginNum == 13 \* settings.fetch_safety_margin = 1.3 = 13/10
SafetyMarginDen == 10

Limits == {1, 3, 10}    \* the `limit` arguments of the calls

RECURSIVE SetToSeq(_)
\* the rows of a set of timestamps in ascending order
SetToSeq(S) ==
    IF S = {} THEN <<>>
    ELSE LET m == CHOOSE x \in S : \A y \in S : x <= y
         IN <<m>> \o SetToSeq(S \ {m})

\* df.iloc[-n:]
TakeLast(df, n) == IF Len(df) <= n THEN df ELSE SubSeq(df, Len(df) - n + 1, Len(df))

InRange(S, lo, hi) == {t \in S : lo <= t /\ t <= hi}

\* line 107: int(limit * settings.data_sufficiency_threshold)
RequiredBars(limit) == (limit * SufficiencyNum) \div SufficiencyDen

\* line 165: int(limit * 1.2)
FetchLimit(limit) == (limit * FetchLimitNum) \div FetchLimitDen

\* lines 132-134: start - timedelta(days=int(days_lookback * (margin - 1))),
\* the margin being num/den
ExtendedStartWith(start, days, num, den) ==
    start - TicksPerDay * ((days * (num - den)) \div den)

\* the same with settings.fetch_safety_margin at its default
ExtendedStart(start, days) ==
    ExtendedStartWith(start, days, SafetyMarginNum, SafetyMarginDen)

\* lines 108 and 123: not df.empty and len(df) >= required_bars
Sufficient(df, limit) == Len(df) > 0 /\ Len(df) >= RequiredBars(limit)

\* A helper whose except clause re-raises.
TryExceptReraise(ok, df) == [raised |-> ~ok, df |-> IF ok THEN df ELSE <<>>]

\* try: ... except Exception: log; return pd.DataFrame()  -- the shape of every
\* tier read (lines 162-197, 206-221, 230-240)
TryExcept(ok, df) == [raised |-> FALSE, df |-> IF ok THEN df ELSE <<>>]

\* the bars table: a row is [id, ts, by], id the autoincrement primary key, ts the
\* timestamp of the (symbol, ts) identity, `by` the writer standing for the
\* row's content
StoreTs(store) == {r.ts : r \in store}

\* rows present before the run, with the timestamps of S
SeedRows(S) ==
    LET q == SetToSeq(S) IN {[id |-> i, ts |-> q[i], by |-> "seed"] : i \in 1..Len(q)}

\* An insert into a table that has no unique constraint on (symbol, ts).
InsertBarUnchecked(store, ts, by) ==
    store \cup {[id |-> Cardinality(store) + 1, ts |-> ts, by |-> by]}

\* one INSERT under uq_bars_symbol_ts: a row whose (symbol, ts) exists is not
\* stored (ON CONFLICT DO NOTHING in the loader, IntegrityError and rollback in
\* _persist_bar)
InsertBar(store, ts, by) ==
    IF ts \in StoreTs(store) THEN store
    ELSE store \cup {[id |-> Cardinality(store) + 1, ts |-> ts, by |-> by]}

\* insert(Bar).values(bars_data): the rows of df, in order
RECURSIVE InsertAll(_, _, _)
InsertAll(store, df, by) ==
    IF Len(df) = 0 THEN store
    ELSE InsertAll(InsertBar(store, df[1], by), Tail(df), by)

\* lines 167-193: the most recent fetch_limit rows in range, oldest first
DatabaseRows(store, limit, start, end) ==
    TakeLast(SetToSeq(InRange(StoreTs(store), start, end)), FetchLimit(limit))

\* lines 207-217
ParquetRows(file, start, end) == SetToSeq(InRange(file, start, end))

\* AlpacaProvider.historical_df: the provider's rows in the range, sorted
ProviderRows(up, start, end) == SetToSeq(InRange(up, start, end))

\* The provider tier keeping every fetched row.
TrimToLimitNever(df, limit) == df

\* lines 148-149
TrimToLimit(df, limit) == IF Len(df) > limit THEN TakeLast(df, limit) ELSE df

\* A store tier accepted only when it covers the whole target.
StoreAcceptedFullTarget(df, limit) == Len(df) > 0 /\ Len(df) >= limit

\* A store tier accepted without the emptiness test.
StoreAcceptedEvenEmpty(df, limit) == Len(df) >= RequiredBars(limit)

\* line 108
StoreAccepted(df, limit) == Sufficient(df, limit)

\* A cascade that skips the write-through of the provider's rows.
AfterFetchNoSave(df) == IF Len(df) = 0 THEN "done" ELSE "done_unsaved"

\* lines 138-143: an empty fetch returns at once, anything else is saved first
AfterFetch(df) == IF Len(df) = 0 THEN "done" ELSE "save_db"

LdIdle ==
    [pc |-> "idle", limit |-> 0, start |-> 0, end |-> 0, days |-> 0, df |-> <<>>,
     tier |-> "none", log |-> <<>>, failed |-> {}, result |-> <<>>, db0 |-> {},
     produced |-> [db |-> 0, cache |-> 0, fetch |-> 0]]

\* lines 76-101: the arguments are resolved; purpose "monitor" gives the days
LoadBegin(limit) ==
    /\ ld.pc \in {"idle", "done"}
    /\ ld' = [LdIdle EXCEPT !.pc = "db", !.limit = limit, !.end = Now,
                            !.days = monitor_preload_days,
                            !.start = Now - monitor_preload_days * TicksPerDay]
    /\ UNCHANGED <<db, parquet, upstream, use_parquet_cache>>

\* lines 104-119
LoadFromDatabase(ok) ==
    /\ ld.pc = "db"
    /\ LET r == TryExcept(ok, DatabaseRows(db, ld.limit, ld.start, ld.end))
           l1 == [ld EXCEPT !.df = r.df, !.log = Append(@, "db_read"),
                            !.failed = IF ok THEN @ ELSE @ \cup {"db_read"},
                            !.db0 = db, !.produced.db = Len(r.df)]
       IN ld' = IF r.raised THEN [l1 EXCEPT !.pc = "raised"]
                ELSE IF StoreAccepted(r.df, ld.limit)
                THEN [l1 EXCEPT !.pc = "done", !.tier = "db",
                                !.result = TakeLast(r.df, ld.limit)]
                ELSE IF use_parquet_cache THEN [l1 EXCEPT !.pc = "parquet"]
                ELSE [l1 EXCEPT !.pc = "fetch"]
    /\ UNCHANGED <<db, parquet, upstream, use_parquet_cache>>

\* lines 121-123
LoadFromParquet(ok) ==
    /\ ld.pc = "parquet"
    /\ LET r == TryExcept(ok, ParquetRows(parquet, ld.start, ld.end))
           l1 == [ld EXCEPT !.df = r.df, !.log = Append(@, "cache_read"),
                            !.failed = IF ok THEN @ ELSE @ \cup {"cache_read"},
                            !.produced.cache = Len(r.df)]
       IN ld' = IF r.raised THEN [l1 EXCEPT !.pc = "raised"]
                ELSE IF Sufficient(r.df, ld.limit)
                THEN [l1 EXCEPT !.pc = "save_db", !.tier = "cache"]
                ELSE [l1 EXCEPT !.pc = "fetch"]
    /\ UNCHANGED <<db, parquet, upstream, use_parquet_cache>>

\* lines 129-140
FetchFromProvider(ok) ==
    /\ ld.pc = "fetch"
    /\ LET r == TryExcept(ok, ProviderRows(upstream, ExtendedStart(ld.start, ld.days),
                                           ld.end))
           l1 == [ld EXCEPT !.df = r.df, !.log = Append(@, "fetch"),
                            !.failed = IF ok THEN @ ELSE @ \cup {"fetch"},
                            !.tier = "provider", !.produced.fetch = Len(r.df)]
       IN ld' = IF r.raised THEN [l1 EXCEPT !.pc = "raised"]
                ELSE IF AfterFetch(r.df) = "done"
                THEN [l1 EXCEPT !.pc = "done", !.result = r.df]
                ELSE IF AfterFetch(r.df) = "save_db"
                THEN [l1 EXCEPT !.pc = "save_db"]
                ELSE [l1 EXCEPT !.pc = "done", !.result = TrimToLimit(r.df, ld.limit)]
    /\ UNCHANGED <<db, parquet, upstream, use_parquet_cache>>

\* _save_to_database (lines 242-276) at line 125 or line 143, and what follows it
SaveToDatabase(ok) ==
    /\ ld.pc = "save_db"
    /\ LET r == TryExcept(ok, ld.df)
           l1 == [ld EXCEPT !.log = Append(@, "db_write"),
                            !.failed = IF ok THEN @ ELSE @ \cup {"db_write"}]
       IN /\ db' = InsertAll(db, r.df, "loader")
          /\ ld' = IF r.raised THEN [l1 EXCEPT !.pc = "raised"]
                   ELSE IF ld.tier = "cache"
                   THEN [l1 EXCEPT !.pc = "done", !.result = TakeLast(ld.df, ld.limit)]
                   ELSE IF use_parquet_cache THEN [l1 EXCEPT !.pc = "save_parquet"]
                   ELSE [l1 EXCEPT !.pc = "done",
                                   !.result = TrimToLimit(ld.df, ld.limit)]
    /\ UNCHANGED <<parquet, upstream, use_parquet_cache>>

\* _save_to_parquet (lines 278-297) at line 145, then lines 148-152
SaveToParquet(ok) ==
    /\ ld.pc = "save_parquet"
    /\ LET r == TryExcept(ok, ld.df)
           l1 == [ld EXCEPT !.log = Append(@, "cache_write"),
                            !.failed = IF ok THEN @ ELSE @ \cup {"cache_write"}]
       IN /\ parquet' = parquet \cup SeqToSet(r.df)   \* concat, drop duplicates, sort
          /\ ld' = IF r.raised THEN [l1 EXCEPT !.pc = "raised"]
                   ELSE [l1 EXCEPT !.pc = "done",
                                   !.result = TrimToLimit(ld.df, ld.limit)]
    /\ UNCHANGED <<db, upstream, use_parquet_cache>>

\* contents of the three sources when the call is made
StoreChoices ==
    {{}, (Now - 4)..Now, (Now - 8)..Now, (Now - 14)..Now, {1, 2, Now - 1, Now}}
ParquetChoices == {{}, (Now - 9)..Now, (Now - 3)..Now}
UpstreamChoices == {{}, 1..Now, (Now - 5)..Now, {7, 8, Now - 1, Now}}

InitLoader ==
    /\ db \in {SeedRows(S) : S \in StoreChoices}
    /\ parquet \in ParquetChoices
    /\ upstream \in UpstreamChoices
    /\ use_parquet_cache \in BOOLEAN
    /\ ld = LdIdle

NextLoader ==
    \/ \E limit \in Limits : LoadBegin(limit) /\ UNCHANGED <<mgrVars, svcVars, fnVars, envVars>>
    \/ \E ok \in BOOLEAN : LoadFromDatabase(ok) /\ UNCHANGED <<mgrVars, svcVars, fnVars, envVars>>
    \/ \E ok \in BOOLEAN : LoadFromParquet(ok) /\ UNCHANGED <<mgrVars, svcVars, fnVars, envVars>>
    \/ \E ok \in BOOLEAN : FetchFromProvider(ok) /\ UNCHANGED <<mgrVars, svcVars, fnVars, envVars>>
    \/ \E ok \in BOOLEAN : SaveToDatabase(ok) /\ UNCHANGED <<mgrVars, svcVars, fnVars, envVars>>
    \/ \E ok \in BOOLEAN : SaveToParquet(ok) /\ UNCHANGED <<mgrVars, svcVars, fnVars, envVars>>

(***************************************************************************)
(* The provider tier's range for any lookback and safety margin            *)
(***************************************************************************)
MaxDays == 10         \* the longest days_lookback of a call
\* values of settings.fetch_safety_margin above 1, as <<numerator, denominator>>
MarginFactors == {<<n, 10>> : n \in 11..20}

\* load_bars lines 91-95 and 131-136: the requested range and the range the
\* provider is queried with
ExtendedStartCall ==
    /\ call.fn = "none"
    /\ call.for = "extended_start"
    /\ LET end == Now
           start == end - call.days * TicksPerDay
       IN  call' = [fn |-> "extended_start", for |-> call.for, days |-> call.days,
                    margin |-> call.margin, start |-> start, end |-> end,
                    fetch_start |-> ExtendedStartWith(start, call.days,
                                                      call.margin[1], call.margin[2]),
                    fetch_end |-> end]
    /\ UNCHANGED <<mgrVars, ldVars, svcVars, envVars>>

InitMargin ==
    \E d \in 1..MaxDays, m \in MarginFactors :
        call = [fn |-> "none", for |-> "extended_start", days |-> d, margin |-> m]

NextMargin == ExtendedStartCall

(***************************************************************************)
(* The divergence detector (app/divergence.py)                             *)
(* A series is a sequence; a pivot is the position of its row, the row's   *)
(* timestamp being the index label the code returns.                       *)
(***************************************************************************)
pivot_k == 1          \* settings.pivot_k, scaled down with the window
lookback_bars == 8    \* settings.lookback_bars, scaled down
ema_period == 3       \* settings.ema_period, scaled down

MinOf(S) == CHOOSE m \in S : \A x \in S : m <= x
MaxOf(S) == CHOOSE m \in S : \A x \in S : m >= x

RECURSIVE Pow(_, _)
Pow(b, e) == IF e = 0 THEN 1 ELSE b * Pow(b, e - 1)

\* _ema: ewm(span=period, adjust=False).mean(), y1 = x1 and
\* y_t = ((period-1)*y_(t-1) + 2*x_t) / (period+1); this is the numerator of y_t
\* over the denominator (period+1)^(t-1)
RECURSIVE Ema(_, _, _)
Ema(s, period, t) ==
    IF t = 1 THEN s[1]
    ELSE (period - 1) * Ema(s, period, t - 1) + 2 * s[t] * Pow(period + 1, t - 2)

\* Series.min() / Series.max(): NaN for an empty series, and a comparison with
\* NaN is False
LessThanMin(c, S) == S # {} /\ c < MinOf(S)
GreaterThanMax(c, S) == S # {} /\ c > MaxOf(S)

\* find_pivot_lows, lines 133-141: the test of position i (counted from 0 as
\* the code counts; close[i + 1] is close.iloc[i])
IsPivotLow(close, k, strict, i) ==
    LET window == {close[j + 1] : j \in (i - k)..(i + k)}
        left   == {close[j + 1] : j \in (i - k)..(i - 1)}
        right  == {close[j + 1] : j \in (i + 1)..(i + k)}
    IN  /\ close[i + 1] = MinOf(window)
        /\ strict => (LessThanMin(close[i + 1], left)
                        /\ LessThanMin(close[i + 1], right))

\* find_pivot_highs, lines 189-197
IsPivotHigh(close, k, strict, i) ==
    LET window == {close[j + 1] : j \in (i - k)..(i + k)}
        left   == {close[j + 1] : j \in (i - k)..(i - 1)}
        right  == {close[j + 1] : j \in (i + 1)..(i + k)}
    IN  /\ close[i + 1] = MaxOf(window)
        /\ strict => (GreaterThanMax(close[i + 1], left)
                        /\ GreaterThanMax(close[i + 1], right))

\* for i in range(k, n - k): ... idxs.append(close.index[i]); the label of
\* position i is its place i + 1 in the series
RECURSIVE PivotLowLoop(_, _, _, _, _)
PivotLowLoop(close, k, strict, i, idxs) ==
    IF i >= Len(close) - k THEN idxs
    ELSE PivotLowLoop(close, k, strict, i + 1,
                      IF IsPivotLow(close, k, strict, i) THEN Append(idxs, i + 1)
                      ELSE idxs)

RECURSIVE PivotHighLoop(_, _, _, _, _)
PivotHighLoop(close, k, strict, i, idxs) ==
    IF i >= Len(close) - k THEN idxs
    ELSE PivotHighLoop(close, k, strict, i + 1,
                       IF IsPivotHigh(close, k, strict, i) THEN Append(idxs, i + 1)
                       ELSE idxs)

\* find_pivot_lows: the labels of the pivot lows, in the order found
FindPivotLows(close, k, strict) == PivotLowLoop(close, k, strict, k, <<>>)

\* find_pivot_highs
FindPivotHighs(close, k, strict) == PivotHighLoop(close, k, strict, k, <<>>)

\* A bullish gate that compares price and EMA on a window of any length.
BullTrendOkAnyLength(close) ==
    IF ~use_trend_filter THEN TRUE
    ELSE close[Len(close)] * Pow(ema_period + 1, Len(close) - 1)
            > Ema(close, ema_period, Len(close))

\* _bull_trend_ok: last price above its EMA
BullTrendOk(close) ==
    IF ~use_trend_filter THEN TRUE
    ELSE IF Len(close) < ema_period + 5 THEN FALSE
    ELSE close[Len(close)] * Pow(ema_period + 1, Len(close) - 1)
            > Ema(close, ema_period, Len(close))

\* _bear_trend_ok: last price below its EMA
BearTrendOk(close) ==
    IF ~use_trend_filter THEN TRUE
    ELSE IF Len(close) < ema_period + 5 THEN FALSE
    ELSE close[Len(close)] * Pow(ema_period + 1, Len(close) - 1)
            < Ema(close, ema_period, Len(close))

NoResult == [hit |-> FALSE, p1_ts |-> 0, p2_ts |-> 0, price |-> 0, indicator_value |-> 0]

Closes(win) == [i \in 1..Len(win) |-> win[i].close]

\* A comparison of the two pivots that looks at the price alone.
DivergencePriceOnly(win, piv, priceHigher, trendOk) ==
    IF Len(piv) < 2 THEN NoResult
    ELSE LET p1 == piv[Len(piv) - 1]
             p2 == piv[Len(piv)]
             priceCond == IF priceHigher THEN win[p2].close > win[p1].close
                          ELSE win[p2].close < win[p1].close
         IN  IF priceCond /\ trendOk
             THEN [hit |-> TRUE, p1_ts |-> win[p1].ts, p2_ts |-> win[p2].ts,
                   price |-> win[p2].close, indicator_value |-> win[p2].ind]
             ELSE NoResult

\* the part the four detectors share: the last two pivots, the price and the
\* indicator comparison (always opposite), then the trend gate
Divergence(win, piv, priceHigher, trendOk) ==
    IF Len(piv) < 2 THEN NoResult
    ELSE LET p1 == piv[Len(piv) - 1]
             p2 == piv[Len(piv)]
             priceCond == IF priceHigher THEN win[p2].close > win[p1].close
                          ELSE win[p2].close < win[p1].close
             indCond == IF priceHigher THEN win[p2].ind < win[p1].ind
                        ELSE win[p2].ind > win[p1].ind
         IN  IF priceCond /\ indCond /\ trendOk
             THEN [hit |-> TRUE, p1_ts |-> win[p1].ts, p2_ts |-> win[p2].ts,
                   price |-> win[p2].close, indicator_value |-> win[p2].ind]
             ELSE NoResult

detect_hidden_bullish(buf, lookback, k) ==
    LET win == TakeLast(buf, lookback)
    IN  Divergence(win, FindPivotLows(Closes(win), k, TRUE), TRUE,
                   BullTrendOk(Closes(win)))

detect_hidden_bearish(buf, lookback, k) ==
    LET win == TakeLast(buf, lookback)
    IN  Divergence(win, FindPivotHighs(Closes(win), k, TRUE), FALSE,
                   BearTrendOk(Closes(win)))

detect_regular_bullish(buf, lookback, k) ==
    LET win == TakeLast(buf, lookback)
    IN  Divergence(win, FindPivotLows(Closes(win), k, TRUE), FALSE,
                   BullTrendOk(Closes(win)))

detect_regular_bearish(buf, lookback, k) ==
    LET win == TakeLast(buf, lookback)
    IN  Divergence(win, FindPivotHighs(Closes(win), k, TRUE), TRUE,
                   BearTrendOk(Closes(win)))

\* DETECTOR_MAP[signal_type]
Detector(signal_type, buf, lookback, k) ==
    CASE signal_type = "hidden_bullish_divergence" -> detect_hidden_bullish(buf, lookback, k)
      [] signal_type = "hidden_bearish_divergence" -> detect_hidden_bearish(buf, lookback, k)
      [] signal_type = "regular_bullish_divergence" -> detect_regular_bullish(buf, lookback, k)
      [] signal_type = "regular_bearish_divergence" -> detect_regular_bearish(buf, lookback, k)

(***************************************************************************)
(* MonitorService: one streaming Service and its live bars                 *)
(* A bar is [ts, close, ind]: the indicator value of a row travels with    *)
(* the row.                                                                *)
(***************************************************************************)
MaxLive == 2              \* live bars delivered in one run
BufferCeiling == 3000     \* the buffer is trimmed when longer than this
BufferRetain == 2200      \* bars kept by a trim

ServiceConfig == [tickers |-> <<"A">>, indicator |-> "rsi",
                  signal_type |-> "hidden_bullish_divergence"]
ClosePrices == {1, 2, 3}
IndicatorValues == {1, 2}

\* A trim that keeps the oldest bars instead of the newest.
TrimBufferKeepOldest(buf) ==
    IF Len(buf) > BufferCeiling THEN SubSeq(buf, 1, BufferRetain) ELSE buf

\* the trim of _process_bar
TrimBuffer(buf) ==
    IF Len(buf) > BufferCeiling THEN TakeLast(buf, BufferRetain) ELSE buf

\* timestamp of the next bar of the feed
NextTs(buf) == IF Len(buf) = 0 THEN 1 ELSE buf[Len(buf)].ts + 1

\* a minute shortly before the buffer's last one, inside its span, of which
\* the buffer holds no bar
LateMinutes(buf) ==
    IF Len(buf) = 0 THEN {}
    ELSE {m \in {buf[Len(buf)].ts - 2} :
             /\ m > buf[1].ts
             /\ \A i \in 1..Len(buf) : buf[i].ts # m}

\* the bars the feed can deliver next: a bar of the next minute, the last bar
\* again (redelivered), a bar of the minute before the last one (late), or the
\* bar of an earlier minute the buffer has no bar of (late)
FeedBars(buf) ==
    {[ts |-> NextTs(buf), close |-> c, ind |-> v] : c \in ClosePrices, v \in IndicatorValues}
    \cup (IF Len(buf) = 0 THEN {}
          ELSE {buf[Len(buf)], [buf[Len(buf)] EXCEPT !.ts = @ - 1]})
    \cup {[ts |-> m, close |-> c, ind |-> v] :
             m \in LateMinutes(buf), c \in ClosePrices, v \in IndicatorValues}

\* the DataFrame index has a repeated label
HasDuplicateTs(buf) ==
    \E i, j \in 1..Len(buf) : i # j /\ buf[i].ts = buf[j].ts

\* A Service that runs the detector on a buffer of any length.
DetectOutcomesAnyLength(buf) ==
    IF HasDuplicateTs(TakeLast(buf, lookback_bars))
    THEN {NoResult, Detector(ServiceConfig.signal_type, buf, lookback_bars, pivot_k)}
    ELSE {Detector(ServiceConfig.signal_type, buf, lookback_bars, pivot_k)}

\* what indicator and detector make of the buffer: with unique timestamps the
\* detector's result; with a repeated index label pandas either raises (reindex,
\* .loc), which on_bar catches, or works by position
DetectOutcomes(buf) ==
    IF Len(buf) < lookback_bars THEN {NoResult}
    ELSE IF HasDuplicateTs(TakeLast(buf, lookback_bars))
    THEN {NoResult, Detector(ServiceConfig.signal_type, buf, lookback_bars, pivot_k)}
    ELSE {Detector(ServiceConfig.signal_type, buf, lookback_bars, pivot_k)}

\* the synchronous part of _process_bar: schedule the raw-bar insert, append,
\* trim, and when the buffer has lookback_bars rows run the detector; a hit
\* leaves the coroutine suspended at `await self._persist_signal`
ProcessBar(s, bar) ==
    /\ processed < MaxLive
    /\ LET buf == TrimBuffer(Append(buffers[s], bar))
       IN  /\ pending' = pending \cup {[bar |-> processed + 1, ts |-> bar.ts]}
           /\ buffers' = [buffers EXCEPT ![s] = buf]
           /\ \E result \in DetectOutcomes(buf) :
                 inflight' = IF result.hit
                             THEN inflight \cup {[bar |-> processed + 1,
                                                  stage |-> "persist",
                                                  result |-> result]}
                             ELSE inflight
           /\ processed' = processed + 1
    /\ UNCHANGED <<signals, broadcasts, db, use_trend_filter, broadcast_cb>>

\* A raw-bar insert whose failure takes the bar out of the buffer again.
PersistBarUndoing(p, ok) ==
    /\ p \in pending
    /\ pending' = pending \ {p}
    /\ db' = IF ok THEN InsertBar(db, p.ts, "live") ELSE db
    /\ buffers' = IF ok THEN buffers
                  ELSE [s \in DOMAIN buffers |->
                          SubSeq(buffers[s], 1, Len(buffers[s]) - 1)]
    /\ UNCHANGED <<signals, broadcasts, inflight, processed,
                   use_trend_filter, broadcast_cb>>

\* _persist_bar, the task created by _process_bar: insert, or roll back when
\* the (symbol, ts) row exists or the commit fails
PersistBar(p, ok) ==
    /\ p \in pending
    /\ pending' = pending \ {p}
    /\ db' = IF ok THEN InsertBar(db, p.ts, "live") ELSE db
    /\ UNCHANGED <<buffers, signals, broadcasts, inflight, processed,
                   use_trend_filter, broadcast_cb>>

SignalRow(s, result) ==
    [symbol |-> s, signal_type |-> ServiceConfig.signal_type,
     indicator |-> ServiceConfig.indicator, ts_signal |-> result.p2_ts,
     price_at_signal |-> result.price, indicator_value |-> result.indicator_value,
     p1_ts |-> result.p1_ts, p2_ts |-> result.p2_ts]

\* A Signal insert whose failure ends the processing of the bar.
PersistSignalAborting(h, ok) ==
    /\ h \in inflight
    /\ h.stage = "persist"
    /\ signals' = IF ok THEN Append(signals, SignalRow("A", h.result)) ELSE signals
    /\ inflight' = (inflight \ {h}) \cup
                   (IF ok /\ broadcast_cb THEN {[h EXCEPT !.stage = "broadcast"]} ELSE {})
    /\ UNCHANGED <<buffers, broadcasts, pending, processed, db,
                   use_trend_filter, broadcast_cb>>

\* _persist_signal: one INSERT per hit; a failure is logged and swallowed
PersistSignal(h, ok) ==
    /\ h \in inflight
    /\ h.stage = "persist"
    /\ signals' = IF ok THEN Append(signals, SignalRow("A", h.result)) ELSE signals
    /\ inflight' = (inflight \ {h}) \cup
                   (IF broadcast_cb THEN {[h EXCEPT !.stage = "broadcast"]} ELSE {})
    /\ UNCHANGED <<buffers, broadcasts, pending, processed, db,
                   use_trend_filter, broadcast_cb>>

\* await self.broadcast_cb(...): an exception ends _process_bar in on_bar's except
Broadcast(h, ok) ==
    /\ h \in inflight
    /\ h.stage = "broadcast"
    /\ broadcasts' = IF ok
                     THEN Append(broadcasts, [symbol |-> "A",
                                              timestamp |-> h.result.p2_ts,
                                              price |-> h.result.price])
                     ELSE broadcasts
    /\ inflight' = inflight \ {h}
    /\ UNCHANGED <<buffers, signals, pending, processed, db,
                   use_trend_filter, broadcast_cb>>

\* buffers the warm load can leave behind
Flat(n) == [i \in 1..n |-> [ts |-> i, close |-> 2, ind |-> 1]]
Pattern ==
    << [ts |-> 1, close |-> 3, ind |-> 1], [ts |-> 2, close |-> 3, ind |-> 1],
       [ts |-> 3, close |-> 1, ind |-> 2], [ts |-> 4, close |-> 3, ind |-> 1],
       [ts |-> 5, close |-> 2, ind |-> 1], [ts |-> 6, close |-> 3, ind |-> 1],
       [ts |-> 7, close |-> 3, ind |-> 1] >>
\* a warm load that returned fewer bars than the lookback window, two pivot
\* lows among them
ShortPattern ==
    << [ts |-> 1, close |-> 3, ind |-> 1], [ts |-> 2, close |-> 1, ind |-> 2],
       [ts |-> 3, close |-> 3, ind |-> 1], [ts |-> 4, close |-> 2, ind |-> 1],
       [ts |-> 5, close |-> 3, ind |-> 1] >>
\* a warm load of a symbol that has no bar of minute 5
GapPattern ==
    << [ts |-> 1, close |-> 3, ind |-> 1], [ts |-> 2, close |-> 3, ind |-> 1],
       [ts |-> 3, close |-> 3, ind |-> 1], [ts |-> 4, close |-> 3, ind |-> 1],
       [ts |-> 6, close |-> 1, ind |-> 2], [ts |-> 7, close |-> 3, ind |-> 1] >>
\* the states a Service can start streaming in: <<warm buffer, trend filter,
\* broadcast callback set>>
ServiceStarts ==
    ({<<>>, Pattern} \X BOOLEAN \X BOOLEAN)
    \cup ({Flat(BufferCeiling - 1), Flat(BufferCeiling), Flat(BufferCeiling + 2)}
          \X {TRUE} \X {FALSE})

\* the same for warm loads that left fewer bars than the lookback window
ShortStarts ==
    ({ShortPattern} \X {FALSE} \X {FALSE}) \cup ({GapPattern} \X {FALSE} \X {TRUE})

InitServiceFrom(starts) ==
    /\ \E st \in starts :
          /\ buffers = [s \in {"A"} |-> st[1]]
          /\ use_trend_filter = st[2]
          /\ broadcast_cb = st[3]
    /\ db = {[id |-> i, ts |-> buffers["A"][i].ts, by |-> "seed"] :
                i \in 1..Len(buffers["A"])}
    /\ signals = <<>>
    /\ broadcasts = <<>>
    /\ pending = {}
    /\ inflight = {}
    /\ processed = 0

InitService == InitServiceFrom(ServiceStarts)

NextService ==
    \/ \E bar \in FeedBars(buffers["A"]) :
          ProcessBar("A", bar) /\ UNCHANGED <<mgrVars, parquet, upstream, use_parquet_cache, ld, fnVars, envVars>>
    \/ \E p \in pending, ok \in BOOLEAN :
          PersistBar(p, ok) /\ UNCHANGED <<mgrVars, parquet, upstream, use_parquet_cache, ld, fnVars, envVars>>
    \/ \E h \in inflight, ok \in BOOLEAN :
          PersistSignal(h, ok) /\ UNCHANGED <<mgrVars, parquet, upstream, use_parquet_cache, ld, fnVars, envVars>>
    \/ \E h \in inflight, ok \in BOOLEAN :
          Broadcast(h, ok) /\ UNCHANGED <<mgrVars, parquet, upstream, use_parquet_cache, ld, fnVars, envVars>>

(***************************************************************************)
(* The feed thread, the event loop and the running Service                 *)
(* (alpaca_provider.py subscribe_bars, monitor_service.py monitor/on_bar)  *)
(***************************************************************************)
MaxBars == 2          \* bars the feed delivers in one run

\* what load_bars returned for one symbol: nothing, or enough for the detector
LoadOutcomes == {"empty", "full"}

\* A Service that subscribes without waiting for its loads.
AllLoadedNever(ts, w, t) == TRUE

\* monitor() lines 105-149: the preload loop is over
AllLoaded(ts, w, t) == Len(w[t]) = Len(ts[t].tickers)

\* monitor() lines 114-117: load_bars has returned for the next symbol
TaskLoad(t, outcome) ==
    /\ t \in 1..Len(tasks)
    /\ tasks[t].status = "running"
    /\ ~tasks[t].cancel
    /\ tasks[t].phase = "loading"
    /\ ~AllLoaded(tasks, warm, t)
    /\ warm' = [warm EXCEPT ![t] = Append(@, outcome)]
    /\ UNCHANGED <<nsub, delivered, loopq, svclog, dropped, suspended>>

\* monitor() line 160, reached when the preload loop is over
RunSubscribe(t) ==
    /\ t \in 1..Len(tasks)
    /\ AllLoaded(tasks, warm, t)
    /\ TaskSubscribe(t)
    /\ nsub' = [nsub EXCEPT ![t] = @ + 1]
    /\ UNCHANGED <<warm, delivered, loopq, svclog, dropped, suspended>>

\* A handler that runs the callback itself when it has no loop.
HandOverInline(loop) == IF loop THEN "loop" ELSE "feed"

\* alpaca_handler lines 169-176: run_coroutine_threadsafe on the captured
\* loop, or an error line in the log
HandOver(loop) == IF loop THEN "loop" ELSE "drop"

\* An event loop that runs the newest callback first.
QueueNextNewest(q) == Len(q)

\* the event loop runs its callbacks in the order they were handed over
QueueNext(q) == 1

\* one entry of a Service's record of work: the bar, the thread that ran
\* _process_bar, whether the detector fired, and whether the Service had been cancelled or had ended
Processed(e, thread, hit) ==
    [bar |-> e.bar, sym |-> e.sym, thread |-> thread, hit |-> hit,
     late |-> tasks[e.task].cancel \/ tasks[e.task].status # "running"]

\* the feed thread runs the handler registered for the symbol of a new bar
FeedDeliver(s) ==
    /\ delivered < MaxBars
    /\ subs[s] # 0
    /\ delivered' = delivered + 1
    /\ LET e == [task |-> subs[s], sym |-> s, bar |-> delivered + 1]
           how == HandOver(main_loop)
       IN  /\ loopq' = IF how = "loop" THEN Append(loopq, e) ELSE loopq
           /\ dropped' = IF how = "drop" THEN dropped \cup {e.bar} ELSE dropped
           /\ svclog' = IF how = "feed"
                        THEN [svclog EXCEPT ![e.task] = Append(@, Processed(e, "feed", FALSE))]
                        ELSE svclog
    /\ UNCHANGED <<warm, nsub, suspended>>

\* the event loop runs on_bar for the next callback: _process_bar lines
\* 219-279 have no await, so the bar is appended and examined in one step; on a
\* hit the coroutine is suspended in _persist_signal
LoopRunOnBar(hit) ==
    /\ Len(loopq) > 0
    /\ LET i == QueueNext(loopq)
           e == loopq[i]
       IN  /\ loopq' = SubSeq(loopq, 1, i - 1) \o SubSeq(loopq, i + 1, Len(loopq))
           /\ svclog' = [svclog EXCEPT ![e.task] = Append(@, Processed(e, "loop", hit))]
           /\ suspended' = IF hit THEN suspended \cup {[task |-> e.task, bar |-> e.bar]}
                           ELSE suspended
    /\ UNCHANGED <<warm, nsub, delivered, dropped>>

\* _persist_signal and the broadcast of a hit are over
ResumeOnBar(h) ==
    /\ h \in suspended
    /\ suspended' = suspended \ {h}
    /\ UNCHANGED <<warm, nsub, delivered, loopq, svclog, dropped>>

\* the request made of the Manager in the runs with a feed; a run follows one
\* Service from its creation on
RunConfigs ==
    {[tickers |-> <<"B", "A">>, indicator |-> "rsi",
      signal_type |-> "hidden_bullish_divergence"]}

NextRun ==
    \/ \E c \in RunConfigs :
          tasks = <<>> /\ StartMonitor(c) /\ UNCHANGED <<ldVars, svcVars, fnVars, envVars>>
    \/ \E c \in RunConfigs : StopMonitor(c) /\ UNCHANGED <<ldVars, svcVars, fnVars, envVars>>
    \/ StopAllBegin /\ UNCHANGED <<ldVars, svcVars, fnVars, envVars>>
    \/ StopAllResume /\ UNCHANGED <<ldVars, svcVars, fnVars, envVars>>
    \/ \E t \in 1..MaxTasks, o \in LoadOutcomes :
          TaskLoad(t, o) /\ UNCHANGED <<mgrVars, ldVars, svcVars, fnVars, apiVars>>
    \/ \E t \in 1..MaxTasks : RunSubscribe(t) /\ UNCHANGED <<ldVars, svcVars, fnVars, apiVars>>
    \/ \E t \in 1..MaxTasks : TaskCancelled(t) /\ UNCHANGED <<ldVars, svcVars, fnVars, envVars>>
    \/ \E t \in 1..MaxTasks : TaskFail(t) /\ UNCHANGED <<ldVars, svcVars, fnVars, envVars>>
    \/ \E s \in Symbols : FeedDeliver(s) /\ UNCHANGED <<mgrVars, ldVars, svcVars, fnVars, apiVars>>
    \/ \E hit \in BOOLEAN :
          LoopRunOnBar(hit) /\ UNCHANGED <<mgrVars, ldVars, svcVars, fnVars, apiVars>>
    \/ \E h \in suspended :
          ResumeOnBar(h) /\ UNCHANGED <<mgrVars, ldVars, svcVars, fnVars, apiVars>>

(***************************************************************************)
(* The indicators (app/indicators/rsi.py, tsi.py)                          *)
(* A float is an exact fraction <<numerator, denominator>> with a positive *)
(* denominator; NaN is the pair <<0, 0>>.                                  *)
(***************************************************************************)
rsi_period == 3       \* RSI.period, scaled down with the series
tsi_long == 3         \* TSI.long, scaled down
tsi_short == 2        \* TSI.short, scaled down

NaN == <<0, 0>>
IsNaN(x) == x[2] = 0
Frac(n, d) == <<n, d>>
FracEq(x, y) == ~IsNaN(x) /\ ~IsNaN(y) /\ x[1] * y[2] = y[1] * x[2]

\* close.diff() without its first entry (which is NaN)
Deltas(close) == [i \in 1..(Len(close) - 1) |-> close[i + 1] - close[i]]

\* Series.bfill(): a NaN takes the next valid value after it, if there is one
Bfill(s) ==
    [i \in 1..Len(s) |->
        IF ~IsNaN(s[i]) THEN s[i]
        ELSE IF \E j \in (i + 1)..Len(s) : ~IsNaN(s[j])
        THEN s[CHOOSE j \in (i + 1)..Len(s) :
                  ~IsNaN(s[j]) /\ \A m \in (i + 1)..(j - 1) : IsNaN(s[m])]
        ELSE NaN]

\* Series.fillna(v)
Fillna(s, v) == [i \in 1..Len(s) |-> IF IsNaN(s[i]) THEN Frac(v, 1) ELSE s[i]]

\* RSI.compute, lines 87-89: np.where(delta > 0, delta, 0.0) and its mirror; the
\* first delta is NaN and fails both comparisons
Gains(close) ==
    [i \in 1..Len(close) |->
        IF i > 1 /\ close[i] - close[i - 1] > 0 THEN close[i] - close[i - 1] ELSE 0]
Losses(close) ==
    [i \in 1..Len(close) |->
        IF i > 1 /\ close[i] - close[i - 1] < 0 THEN close[i - 1] - close[i] ELSE 0]

\* RSI.compute, lines 106-116: rs = gain_ema / loss_ema.replace(0, nan) and
\* rsi = 100 - 100 / (1 + rs); both averages have the denominator
\* (period+1)^(t-1), so rs = G / L and rsi = 100 * G / (G + L)
RsiRaw(close, period) ==
    [t \in 1..Len(close) |->
        LET G == Ema(Gains(close), period, t)
            L == Ema(Losses(close), period, t)
        IN  IF L = 0 THEN NaN ELSE Frac(100 * G, G + L)]

\* RSI.compute, line 123: rsi.bfill().fillna(50)
Rsi(close, period) == Fillna(Bfill(RsiRaw(close, period)), 50)

\* ewm(span=short).mean() of ewm(span=long).mean() of a series without NaN:
\* the numerator of the value at t over ((long+1) * (short+1))^(t-1)
RECURSIVE Ema2(_, _, _, _)
Ema2(s, long, short, t) ==
    IF t = 1 THEN s[1]
    ELSE (short - 1) * (long + 1) * Ema2(s, long, short, t - 1)
         + 2 * Ema(s, long, t) * Pow(short + 1, t - 2)

Abs(x) == IF x < 0 THEN 0 - x ELSE x

\* TSI.compute, lines 124-151: the doubly smoothed momentum and absolute
\* momentum at position t >= 2 (position 1 holds NaN: diff has no first value
\* and ewm skips it)
Ema2Momentum(close, long, short, t) == Ema2(Deltas(close), long, short, t - 1)
Ema2AbsMomentum(close, long, short, t) ==
    Ema2([i \in 1..(Len(close) - 1) |-> Abs(Deltas(close)[i])], long, short, t - 1)

\* TSI.compute, line 164: 100 * (ema2_momentum / ema2_abs_momentum.replace(0, nan))
TsiRaw(close, long, short) ==
    [t \in 1..Len(close) |->
        IF t = 1 THEN NaN
        ELSE IF Ema2AbsMomentum(close, long, short, t) = 0 THEN NaN
        ELSE Frac(100 * Ema2Momentum(close, long, short, t),
                  Ema2AbsMomentum(close, long, short, t))]

\* TSI.compute, line 170: tsi.bfill().fillna(0)
Tsi(close, long, short) == Fillna(Bfill(TsiRaw(close, long, short)), 0)

\* indicator.compute(close) for the two indicators
RsiCall ==
    /\ call.fn = "none" /\ call.indicator = "rsi"
    /\ call' = [fn |-> "rsi", indicator |-> "rsi", close |-> call.close,
                result |-> Rsi(call.close, rsi_period)]
    /\ UNCHANGED <<mgrVars, ldVars, svcVars, envVars>>

TsiCall ==
    /\ call.fn = "none" /\ call.indicator = "tsi"
    /\ call' = [fn |-> "tsi", indicator |-> "tsi", close |-> call.close,
                result |-> Tsi(call.close, tsi_long, tsi_short)]
    /\ UNCHANGED <<mgrVars, ldVars, svcVars, envVars>>

(***************************************************************************)
(* The API process (app/main_api.py): websocket receivers and the          *)
(* broadcast callback                                                      *)
(***************************************************************************)
MaxReceivers == 3     \* websockets accepted in one run
Receivers == 1..MaxReceivers

\* list.remove(x)
RECURSIVE Remove(_, _)
Remove(list, x) ==
    IF Len(list) = 0 THEN <<>>
    ELSE IF Head(list) = x THEN Tail(list)
    ELSE <<Head(list)>> \o Remove(Tail(list), x)

\* lines 63-65: for ws in disconnected: if ws in active_connections: remove
RECURSIVE RemoveAll(_, _)
RemoveAll(list, gone) ==
    IF Len(gone) = 0 THEN list
    ELSE RemoveAll(IF Head(gone) \in SeqToSet(list) THEN Remove(list, Head(gone))
                   ELSE list,
                   Tail(gone))

BcIdle == [pc |-> "idle", idx |-> 0, cur |-> 0, disconnected |-> <<>>,
           start |-> {}, attempted |-> {}, delivered |-> {}]

\* `for ws in active_connections`: the list iterator keeps an index into the
\* live list; 0 stands for StopIteration
IterNext(list, b) ==
    IF b.idx < Len(list) THEN list[b.idx + 1] ELSE 0

\* lines 55-65 from the top of the loop to the next suspension: either the
\* next websocket's send_json is awaited, or the loop is over and the failed
\* websockets are removed
BroadcastAdvance(list, b) ==
    LET ws == IterNext(list, b)
    IN  IF ws # 0
        THEN <<list, [b EXCEPT !.pc = "sending", !.cur = ws, !.idx = @ + 1,
                               !.attempted = @ \cup {ws}]>>
        ELSE <<RemoveAll(list, b.disconnected), [b EXCEPT !.pc = "done", !.cur = 0]>>

\* websocket_endpoint, lines 180-181
Connect(w) ==
    /\ ws_state[w] = "new"
    /\ ws_state' = [ws_state EXCEPT ![w] = "open"]
    /\ active_connections' = Append(active_connections, w)
    /\ UNCHANGED <<bc, runVars>>

\* websocket_endpoint, lines 191-193: the client went away
Disconnect(w) ==
    /\ ws_state[w] = "open"
    /\ ws_state' = [ws_state EXCEPT ![w] = "closed"]
    /\ active_connections' = IF w \in SeqToSet(active_connections)
                             THEN Remove(active_connections, w)
                             ELSE active_connections
    /\ UNCHANGED <<bc, runVars>>

\* broadcast_signal is called: lines 50-57 up to the first await
BroadcastBegin ==
    /\ bc.pc \in {"idle", "done"}
    /\ LET r == BroadcastAdvance(active_connections,
                                 [BcIdle EXCEPT !.start = SeqToSet(active_connections)])
       IN  active_connections' = r[1] /\ bc' = r[2]
    /\ UNCHANGED <<ws_state, runVars>>

\* the awaited send_json returns or raises (it raises on a closed websocket),
\* and the loop goes on to the next suspension
BroadcastResume(ok) ==
    /\ bc.pc = "sending"
    /\ ok => ws_state[bc.cur] = "open"
    /\ LET b1 == IF ok THEN [bc EXCEPT !.delivered = @ \cup {bc.cur}]
                 ELSE [bc EXCEPT !.disconnected = Append(@, bc.cur)]
           r == BroadcastAdvance(active_connections, b1)
       IN  active_connections' = r[1] /\ bc' = r[2]
    /\ UNCHANGED <<ws_state, runVars>>

InitApi ==
    /\ active_connections = <<>>
    /\ ws_state = [w \in Receivers |-> "new"]
    /\ bc = BcIdle

InitRun ==
    /\ warm = [t \in 1..MaxTasks |-> <<>>]
    /\ nsub = [t \in 1..MaxTasks |-> 0]
    /\ delivered = 0
    /\ loopq = <<>>
    /\ svclog = [t \in 1..MaxTasks |-> <<>>]
    /\ dropped = {}
    /\ suspended = {}

InitEnv == InitApi /\ InitRun

NextApi ==
    \/ \E w \in Receivers : Connect(w) /\ UNCHANGED <<mgrVars, ldVars, svcVars, fnVars>>
    \/ \E w \in Receivers : Disconnect(w) /\ UNCHANGED <<mgrVars, ldVars, svcVars, fnVars>>
    \/ BroadcastBegin /\ UNCHANGED <<mgrVars, ldVars, svcVars, fnVars>>
    \/ \E ok \in BOOLEAN : BroadcastResume(ok) /\ UNCHANGED <<mgrVars, ldVars, svcVars, fnVars>>

(***************************************************************************)
(* Specification of the Manager                                            *)
(***************************************************************************)
\* MonitorManager.__init__: an empty registry, no provider yet
InitRegistry ==
    /\ monitors = <<>>
    /\ tasks = <<>>
    /\ provider = "none"
    /\ data_provider \in DataProviders
    /\ subs = [s \in Symbols |-> 0]
    /\ started = FALSE
    /\ main_loop = FALSE
    /\ sa = SaIdle
    /\ lastOp = NoOp

InitMgr ==
    /\ InitRegistry
    /\ call = NoCall

Init ==
    /\ InitMgr
    /\ InitEnv
    /\ db = {} /\ parquet = {} /\ upstream = {} /\ use_parquet_cache = FALSE
    /\ ld = LdIdle
    /\ buffers = <<>> /\ signals = <<>> /\ broadcasts = <<>> /\ pending = {}
    /\ inflight = {} /\ processed = 0
    /\ use_trend_filter = TRUE /\ broadcast_cb = FALSE

Next ==
    \/ \E c \in Configs : StartMonitor(c) /\ UNCHANGED <<ldVars, svcVars, fnVars, envVars>>
    \/ \E c \in Configs : StopMonitor(c) /\ UNCHANGED <<ldVars, svcVars, fnVars, envVars>>
    \/ ListMonitors /\ UNCHANGED <<ldVars, svcVars, fnVars, envVars>>
    \/ StopAllBegin /\ UNCHANGED <<ldVars, svcVars, fnVars, envVars>>
    \/ StopAllResume /\ UNCHANGED <<ldVars, svcVars, fnVars, envVars>>
    \/ \E t \in 1..MaxTasks : TaskSubscribe(t) /\ UNCHANGED <<ldVars, svcVars, fnVars, envVars>>
    \/ \E t \in 1..MaxTasks : TaskCancelled(t) /\ UNCHANGED <<ldVars, svcVars, fnVars, envVars>>
    \/ \E t \in 1..MaxTasks : TaskFail(t) /\ UNCHANGED <<ldVars, svcVars, fnVars, envVars>>

Spec == Init /\ [][Next]_vars


(***************************************************************************)
(* Claims about the Manager (checked under Spec)                           *)
(***************************************************************************)
RunningTasksOf(k) ==
    {t \in 1..Len(tasks) : tasks[t].key = k /\ tasks[t].status = "running"}

\* C1: a start for a key whose registered task has not finished returns
\* already_running, creates no task and leaves the registry unchanged.
C1_StartAlreadyRunning ==
    [][\A c \in Configs :
         LET key == ConfigKey(c) IN
         (/\ lastOp'.op = "start"
          /\ lastOp'.key = key
          /\ HasKey(monitors, key)
          /\ tasks[Entry(monitors, key).task].status = "running")
         => /\ lastOp'.result = "already_running"
            /\ lastOp'.created = 0
            /\ monitors' = monitors
            /\ tasks' = tasks]_vars

\* C1 witness: a start has just been answered already_running while the task runs.
C1_Witness ==
    /\ lastOp.op = "start"
    /\ lastOp.result = "already_running"
    /\ HasKey(monitors, lastOp.key)
    /\ tasks[Entry(monitors, lastOp.key).task].status = "running"

\* C2: every key has at most one Service task that has not finished, registered
\* or not.
C2_AtMostOneRunningTaskPerKey ==
    \A t1, t2 \in 1..Len(tasks) :
        (/\ tasks[t1].key = tasks[t2].key
         /\ tasks[t1].status = "running"
         /\ tasks[t2].status = "running") => t1 = t2

\* C9: a stop for a registered key requests cancellation of the unfinished task,
\* issues unsubscribe for the entry's symbols and removes the key, also when the
\* unsubscribe failed; the listing then has no entry for the key, and only a later
\* start registers the key again.
C9_StopRegistered ==
    [][/\ \A c \in Configs :
            LET key == ConfigKey(c) IN
            (lastOp'.op = "stop" /\ lastOp'.key = key /\ HasKey(monitors, key))
            => LET info == Entry(monitors, key) IN
               /\ ~HasKey(monitors', key)
               /\ (tasks[info.task].status = "running" =>
                      tasks'[info.task].cancel /\ lastOp'.cancelled = info.task)
               /\ lastOp'.unsub = SeqToSet(info.tickers)
               /\ lastOp'.result \in {"stopped", "stopped_unsub_failed"}
               /\ \A i \in 1..Len(ListResult(monitors', tasks')) :
                      ListResult(monitors', tasks')[i].key # key
       /\ \A c \in Configs :
            (~HasKey(monitors, ConfigKey(c)) /\ lastOp'.op # "start")
            => ~HasKey(monitors', ConfigKey(c))]_vars

\* C9 witness: a stop cancelled a running task while the unsubscribe failed.
C9_Witness ==
    /\ lastOp.op = "stop"
    /\ lastOp.result = "stopped_unsub_failed"
    /\ lastOp.cancelled # 0
    /\ tasks[lastOp.cancelled].cancel
    /\ ~HasKey(monitors, lastOp.key)

\* C10: a stop for a key that is not registered returns not_found, cancels
\* nothing, sends no unsubscribe and leaves registry, tasks and feed unchanged.
C10_StopNotFound ==
    [][(lastOp'.op = "stop" /\ ~HasKey(monitors, lastOp'.key))
       => /\ lastOp'.result = "not_found"
          /\ lastOp'.cancelled = 0
          /\ lastOp'.unsub = {}
          /\ monitors' = monitors
          /\ tasks' = tasks
          /\ subs' = subs]_vars

\* C10 witness: not_found was returned for the key A,B while another monitor's
\* running task holds the feed subscription of A.
C10_Witness ==
    /\ lastOp.op = "stop"
    /\ lastOp.result = "not_found"
    /\ lastOp.key = ConfigKey([tickers |-> <<"B", "A">>, indicator |-> "rsi",
                              signal_type |-> "hidden_bullish_divergence"])
    /\ subs["A"] # 0
    /\ tasks[subs["A"]].status = "running"


\* C11: stop_all never raises; it resumes only after the awaited task has
\* terminated, whether by cancellation or with a fault, and then goes on to the
\* remaining entries; each task it waits for has been asked to cancel; when it
\* returns, every task registered when it was called has terminated, the feed
\* has been stopped (after all of them) and the registry is empty.
C11_StopAllReturns ==
    [][lastOp'.op = "stop_all" =>
         /\ lastOp'.result \in {"awaiting", "done"}
         /\ sa.pc = "idle" => sa'.all = [i \in 1..Len(monitors) |-> monitors[i].task]
         /\ sa.pc = "await" => (TaskDone(tasks, sa.cur) /\ sa'.all = sa.all)
         /\ lastOp'.result = "awaiting" =>
               /\ sa'.pc = "await"
               /\ ~TaskDone(tasks', sa'.cur)
               /\ tasks'[sa'.cur].cancel
               /\ \E i \in 1..Len(sa'.all) :
                     /\ sa'.all[i] = sa'.cur
                     /\ \A j \in 1..(i - 1) : TaskDone(tasks', sa'.all[j])
                     /\ sa'.rest = SubSeq(sa'.all, i + 1, Len(sa'.all))
               /\ started' = started /\ monitors' = monitors
         /\ lastOp'.result = "done" =>
               /\ sa'.pc = "idle"
               /\ \A i \in 1..Len(sa'.all) : TaskDone(tasks', sa'.all[i])
               /\ monitors' = <<>>
               /\ ~started'
               /\ provider # "none" => ~main_loop']_vars

\* C11 witness: stop_all returned after waiting for two registered tasks, the
\* first of which ended with a fault while it was awaited and the second by
\* cancellation.
C11_Witness ==
    /\ lastOp.op = "stop_all" /\ lastOp.result = "done"
    /\ Len(sa.all) = 2
    /\ sa.faults = 1
    /\ tasks[sa.all[1]].status = "failed"
    /\ tasks[sa.all[2]].status = "cancelled"
    /\ monitors = <<>>

\* C12: a start whose indicator or signal type is not a known name returns the
\* error outcome, creates no task and leaves no registry entry for its key.
C12_StartInvalidConfig ==
    [][\A c \in Configs :
         (/\ lastOp'.op = "start"
          /\ lastOp'.key = ConfigKey(c)
          /\ (c.indicator \notin INDICATOR_MAP \/ c.signal_type \notin DETECTOR_MAP))
         => /\ lastOp'.result = "error"
            /\ lastOp'.created = 0
            /\ tasks' = tasks
            /\ ~HasKey(monitors', ConfigKey(c))]_vars

\* C13: every start and every stop ends by returning an outcome (started,
\* already_running, error; stopped, not_found), never by raising.
C13_StructuredOutcome ==
    lastOp.op \in {"start", "stop"} => lastOp.result # "raised"

\* C14: list returns at once, in every state; its result has exactly one entry
\* per registered key and no other entry, each with the status of the key's
\* task: running iff the task has not finished, cancelled iff it ended by
\* cancellation, failed iff it ended with a fault, completed iff it ended
\* normally; the call changes neither the registry nor any task.
C14_ListSnapshot ==
    /\ [](ENABLED ListMonitors)
    /\ [][lastOp'.op = "list" =>
            LET out == lastOp'.listing IN
            /\ monitors' = monitors
            /\ tasks' = tasks
            /\ Len(out) = Len(monitors)
            /\ \A i \in 1..Len(out) : HasKey(monitors, out[i].key)
            /\ \A m \in 1..Len(monitors) :
                 /\ Cardinality({i \in 1..Len(out) : out[i].key = monitors[m].key}) = 1
                 /\ \A i \in 1..Len(out) :
                      out[i].key = monitors[m].key =>
                         LET how == tasks[monitors[m].task].status IN
                         /\ out[i].status = "running" <=> how = "running"
                         /\ out[i].status = "cancelled" <=> how = "cancelled"
                         /\ out[i].status = "failed" <=> how = "failed"
                         /\ out[i].status = "completed" <=> how = "completed"]_vars

\* C14 witness: a listing of two registered keys, one whose task ended by
\* cancellation and one whose task is still running.
C14_Witness ==
    /\ lastOp.op = "list"
    /\ Len(lastOp.listing) = 2
    /\ \E i, j \in 1..2 :
          /\ lastOp.listing[i].status = "cancelled"
          /\ lastOp.listing[j].status = "running"

\* C15: when a Service task ends with a fault, only that task changes: its key
\* stays registered, every other task and the feed are untouched; every later
\* list reports each registered key whose task ended with a fault as failed; and
\* a Manager call raises only when start cannot create the provider, which no
\* task fault influences.
C15_TaskFaultContained ==
    /\ [][(lastOp'.op = "task" /\ lastOp'.result = "failed") =>
            /\ monitors' = monitors
            /\ subs' = subs /\ started' = started /\ provider' = provider
            /\ sa' = sa
            /\ \E t \in 1..Len(tasks) :
                  /\ tasks[t].status = "running"
                  /\ tasks'[t].status = "failed"
                  /\ \A u \in 1..Len(tasks) : u # t => tasks'[u] = tasks[u]]_vars
    /\ [][lastOp'.op = "list" =>
            \A m \in 1..Len(monitors) :
               tasks[monitors[m].task].status = "failed" =>
                  \E i \in 1..Len(lastOp'.listing) :
                     /\ lastOp'.listing[i].key = monitors[m].key
                     /\ lastOp'.listing[i].status = "failed"]_vars
    /\ [][lastOp'.result = "raised" =>
            /\ lastOp'.op = "start"
            /\ provider = "none"
            /\ data_provider \notin {"alpaca", "polygon"}]_vars

\* C15 witness: a listing of two registered keys, one failed and one running
\* with no cancellation requested.
C15_Witness ==
    /\ lastOp.op = "list"
    /\ Len(monitors) = 2
    /\ \E i, j \in 1..2 :
          /\ lastOp.listing[i].status = "failed"
          /\ lastOp.listing[j].status = "running"
          /\ tasks[Entry(monitors, lastOp.listing[j].key).task].cancel = FALSE

\* C32: a start for a key whose registered task has terminated deletes the
\* stale entry, creates and registers a new Service task and returns started;
\* the registry then holds one entry for the key, that of the new task, and
\* every other entry as before.
C32_StartAfterTermination ==
    [][\A c \in Configs :
         LET key == ConfigKey(c) IN
         (/\ lastOp'.op = "start"
          /\ lastOp'.key = key
          /\ \E i \in 1..Len(monitors) :
                monitors[i].key = key /\ tasks[monitors[i].task].status # "running")
         => /\ lastOp'.result = "started"
            /\ lastOp'.created = Len(tasks) + 1
            /\ tasks' = Append(tasks, NewTask(key, c.tickers))
            /\ \A i \in 1..Len(monitors') :
                  monitors'[i].key = key =>
                     /\ monitors'[i].task = lastOp'.created
                     /\ monitors'[i].tickers = c.tickers
            /\ Cardinality({i \in 1..Len(monitors') : monitors'[i].key = key}) = 1
            /\ SelectSeq(monitors', LAMBDA e : e.key # key)
                  = SelectSeq(monitors, LAMBDA e : e.key # key)]_vars

\* a start has just replaced the entry of a terminated task by a new task
C32_Witness ==
    /\ lastOp.op = "start"
    /\ lastOp.result = "started"
    /\ lastOp.evicted # 0
    /\ tasks[lastOp.evicted].status \in {"failed", "cancelled"}
    /\ tasks[lastOp.evicted].key = lastOp.key
    /\ Entry(monitors, lastOp.key).task = lastOp.created
    /\ tasks[lastOp.created].status = "running"

\* C37: stopping one monitor does not disturb another: a symbol whose handler
\* on the shared feed belongs to a running Service of a different key is still
\* subscribed for that Service after the stop.
C37_StopLeavesOthersSubscribed ==
    [][(lastOp'.op = "stop" /\ lastOp'.result = "stopped") =>
          \A s \in Symbols :
             (/\ subs[s] # 0
              /\ tasks[subs[s]].key # lastOp'.key
              /\ tasks[subs[s]].status = "running"
              /\ ~tasks[subs[s]].cancel)
             => subs'[s] = subs[s]]_vars

\* C38: when stop_all returns, every task that is still running and that
\* nobody has asked to cancel is registered, whatever start requests ran while
\* stop_all was suspended awaiting a task.
C38_RunningImpliesRegistered ==
    (lastOp.op = "stop_all" /\ lastOp.result = "done") =>
       \A t \in 1..Len(tasks) :
          (tasks[t].status = "running" /\ ~tasks[t].cancel) =>
             \E i \in 1..Len(monitors) : monitors[i].task = t

(***************************************************************************)
(* Specification of the loader                                             *)
(***************************************************************************)
InitL ==
    /\ InitLoader
    /\ InitMgr /\ data_provider = "alpaca"
    /\ InitEnv
    /\ buffers = <<>> /\ signals = <<>> /\ broadcasts = <<>> /\ pending = {}
    /\ inflight = {} /\ processed = 0
    /\ use_trend_filter = TRUE /\ broadcast_cb = FALSE

SpecLoader == InitL /\ [][NextLoader]_vars


(***************************************************************************)
(* Claims about the loader (checked under SpecLoader)                      *)
(***************************************************************************)
IsPrefix(a, b) == Len(a) <= Len(b) /\ SubSeq(b, 1, Len(a)) = a

\* the rows the store held in the requested range when it was queried
StoreRowsAtQuery == InRange(StoreTs(ld.db0), ld.start, ld.end)

\* a tier result the loader does not accept: empty, or fewer rows than required_bars
Inadequate(n, limit) == n = 0 \/ n < RequiredBars(limit)

\* C4: when the store query succeeds and the store holds at least
\* target x threshold rows in range, the call is over with the store tier: it
\* returns the most recent `limit` of those rows in ascending order and has done
\* nothing but the store read (no cache read, no fetch, no write).
C4_StoreSufficient ==
    (/\ ld.log # <<>>
     /\ "db_read" \notin ld.failed
     /\ StoreRowsAtQuery # {}
     /\ Cardinality(StoreRowsAtQuery) * SufficiencyDen >= ld.limit * SufficiencyNum)
    => /\ ld.pc = "done"
       /\ ld.tier = "db"
       /\ ld.result = TakeLast(SetToSeq(StoreRowsAtQuery), ld.limit)
       /\ ld.log = <<"db_read">>
       /\ db = ld.db0

\* C4 witness: 9 rows in range for a target of 10 were returned from the store
\* while the cache is enabled.
C4_Witness ==
    /\ ld.pc = "done"
    /\ ld.tier = "db"
    /\ ld.limit = 10
    /\ Cardinality(StoreRowsAtQuery) = 9
    /\ Len(ld.result) = 9
    /\ use_parquet_cache

C6_NeverRaises ==
    /\ ld.pc # "raised"
    /\ ("db_read" \in ld.failed =>
          /\ ld.produced.db = 0
          /\ ld.pc # "done" \/ Len(ld.log) >= 2
          /\ Len(ld.log) >= 2 =>
                ld.log[2] = IF use_parquet_cache THEN "cache_read" ELSE "fetch")
    /\ ("cache_read" \in ld.failed =>
          /\ ld.produced.cache = 0
          /\ ld.pc = "fetch" \/ "fetch" \in SeqToSet(ld.log))
    /\ ("fetch" \in ld.failed =>
          ld.produced.fetch = 0 /\ ld.pc = "done" /\ ld.result = <<>>)
    /\ ((ld.pc = "done" /\ ld.tier = "cache") =>
          ld.result = TakeLast(ParquetRows(parquet, ld.start, ld.end), ld.limit))
    /\ ((ld.pc = "done" /\ ld.tier = "provider" /\ "fetch" \notin ld.failed) =>
          ld.result = TakeLast(ProviderRows(upstream, ExtendedStart(ld.start, ld.days),
                                            ld.end), ld.limit))

\* C6 witness: store read, cache read and both write-throughs failed and the
\* provider's rows were returned all the same.
C6_Witness ==
    /\ ld.pc = "done"
    /\ ld.failed = {"db_read", "cache_read", "db_write", "cache_write"}
    /\ ld.result # <<>>

\* C7 as claimed: the result is empty only if store, cache and provider all
\* produced no rows.
C7_EmptyOnlyIfAllTiersEmpty ==
    (ld.pc = "done" /\ ld.result = <<>>)
    => (ld.produced.db = 0 /\ ld.produced.cache = 0 /\ ld.produced.fetch = 0)

\* C7 amended: the result is empty exactly when the provider tier was reached and
\* produced no rows, the store result and (if enabled) the cache result having
\* been empty or below the threshold; rows of a tier below the threshold are
\* dropped.
C7_EmptyOnlyIfProviderEmpty ==
    ld.pc = "done" =>
       /\ (ld.result = <<>> =>
             /\ ld.tier = "provider"
             /\ "fetch" \in SeqToSet(ld.log)
             /\ ld.produced.fetch = 0
             /\ Inadequate(ld.produced.db, ld.limit)
             /\ (use_parquet_cache => Inadequate(ld.produced.cache, ld.limit)))
       /\ ((ld.tier \in {"db", "cache"} \/ ld.produced.fetch > 0) => ld.result # <<>>)

\* C7 witness: the store produced rows, fewer than required, and the call ended
\* with the empty result.
C7_Witness ==
    /\ ld.pc = "done"
    /\ ld.result = <<>>
    /\ ld.produced.db > 0
    /\ "db_read" \notin ld.failed

\* C33: the store tier's and the cache tier's result is accepted only if its
\* row count is at least ceil(target x threshold): a call that ended with the
\* store or cache tier produced at least target x threshold rows there.
C33_AcceptedAtLeastCeiling ==
    /\ (ld.pc = "done" /\ ld.tier = "db")
          => ld.produced.db * SufficiencyDen >= ld.limit * SufficiencyNum
    /\ (ld.pc = "done" /\ ld.tier = "cache")
          => ld.produced.cache * SufficiencyDen >= ld.limit * SufficiencyNum

InitS ==
    /\ InitService
    /\ InitMgr /\ data_provider = "alpaca"
    /\ InitEnv
    /\ parquet = {} /\ upstream = {} /\ use_parquet_cache = FALSE
    /\ ld = LdIdle

SpecService == InitS /\ [][NextService]_vars

(***************************************************************************)
(* Claims about the Service (checked under SpecService)                    *)
(***************************************************************************)
\* C3: after each processed live bar the buffer of every symbol holds at most
\* 3000 bars; a bar that would take it past 3000 leaves exactly the most recent
\* 2200 bars, the new bar last, and any other bar is simply appended.
C3_BufferBounded ==
    /\ [](processed > 0 => \A s \in DOMAIN buffers : Len(buffers[s]) <= 3000)
    /\ [][\A s \in DOMAIN buffers :
             buffers'[s] # buffers[s] =>
                LET new == buffers'[s]
                    all == Append(buffers[s], new[Len(new)])
                IN  /\ Len(new) > 0
                    /\ Len(all) > 3000 => new = SubSeq(all, Len(all) - 2200 + 1, Len(all))
                    /\ Len(all) <= 3000 => new = all]_vars

\* C3 witness: a live bar took a full buffer past the ceiling and the 2200 most
\* recent bars remain.
C3_Witness ==
    /\ processed = 1
    /\ Len(buffers["A"]) = 2200
    /\ buffers["A"][1].ts = 3001 - 2200 + 1
    /\ buffers["A"][2200].ts = 3001

\* the timestamps of a buffer are strictly increasing: each one is below its
\* successor
TimestampsIncreasing(buf) ==
    \A i \in 1..(Len(buf) - 1) : buf[i].ts < buf[i + 1].ts

\* C8: a pivot pair yields exactly one Signal, not one per bar during which the
\* pair stays inside the window: on a stream delivered in order, no two rows of
\* the signals table carry the same (p1_ts, p2_ts).
C8_OneSignalPerPivotPair ==
    TimestampsIncreasing(buffers["A"]) =>
       \A i, j \in 1..Len(signals) :
           (signals[i].p1_ts = signals[j].p1_ts /\ signals[i].p2_ts = signals[j].p2_ts)
           => i = j

\* C17: the timestamps of every symbol's buffer are strictly increasing in every
\* reachable state, redelivered and late bars included.
C17_BufferStrictlyIncreasing ==
    \A s \in DOMAIN buffers : TimestampsIncreasing(buffers[s])

\* C30: a failure of Signal persistence or of the broadcast callback is
\* caught: the bar stays in the buffer, the hit's coroutine ends, later bars
\* are still processed, and after a failed Signal insert the broadcast callback
\* is still invoked when one is set.
C30_AfterFailure ==
    /\ broadcast_cb
    /\ inflight = {}
    /\ Len(signals) # Len(broadcasts)

C30_FailureStep ==
    (inflight' # inflight /\ processed' = processed) =>
          /\ buffers' = buffers
          /\ \E h \in inflight :
                \/ /\ h.stage = "persist"
                   /\ inflight' = (inflight \ {h}) \cup
                         (IF broadcast_cb THEN {[h EXCEPT !.stage = "broadcast"]} ELSE {})
                   /\ signals' \in {signals, Append(signals, SignalRow("A", h.result))}
                   /\ broadcasts' = broadcasts
                \/ /\ h.stage = "broadcast"
                   /\ inflight' = inflight \ {h}
                   /\ signals' = signals
                   /\ Len(broadcasts') \in {Len(broadcasts), Len(broadcasts) + 1}

InitShort ==
    /\ InitServiceFrom(ShortStarts)
    /\ InitMgr /\ data_provider = "alpaca"
    /\ InitEnv
    /\ parquet = {} /\ upstream = {} /\ use_parquet_cache = FALSE
    /\ ld = LdIdle

SpecShort == InitShort /\ [][NextService]_vars

(***************************************************************************)
(* Claims about the Service after a short warm load (checked under         *)
(* SpecShort)                                                              *)
(***************************************************************************)
\* C28: when the buffer, the incoming bar appended, holds fewer bars than the
\* lookback, the bar is appended and handed to raw-bar persistence, the
\* detector is not run and no Signal is emitted, persisted or broadcast for it.
C28_ShortBufferStep ==
    (processed' = processed + 1 /\ Len(buffers'["A"]) < lookback_bars) =>
        LET new == buffers'["A"]
        IN  /\ Len(new) = Len(buffers["A"]) + 1
            /\ SubSeq(new, 1, Len(new) - 1) = buffers["A"]
            /\ pending' = pending \cup {[bar |-> processed', ts |-> new[Len(new)].ts]}
            /\ inflight' = inflight
            /\ signals' = signals
            /\ broadcasts' = broadcasts

C28_NoDetectionBelowLookback ==
    /\ [](\A h \in inflight : h.bar \in 1..processed)
    /\ [][C28_ShortBufferStep]_vars

\* a bar was appended to a buffer that stays below the lookback and on which
\* the detector, had it been run, would have reported a divergence
C28_Witness ==
    /\ processed = 1
    /\ Len(buffers["A"]) < lookback_bars
    /\ Detector(ServiceConfig.signal_type, buffers["A"], lookback_bars, pivot_k).hit
    /\ pending # {}
    /\ inflight = {}
    /\ signals = <<>>

C31_PersistStep ==
    (pending' # pending /\ processed' = processed) =>
        /\ buffers' = buffers
        /\ inflight' = inflight
        /\ signals' = signals
        /\ broadcasts' = broadcasts
        /\ \E p \in pending : pending' = pending \ {p} /\ db' \in {db, InsertBar(db, p.ts, "live")}

C31_ProcessStep ==
    processed' = processed + 1 =>
        LET new == buffers'["A"]
            hits == {r \in {Detector(ServiceConfig.signal_type, new, lookback_bars, pivot_k)} :
                        Len(new) >= lookback_bars /\ r.hit}
        IN  /\ pending' = pending \cup {[bar |-> processed', ts |-> new[Len(new)].ts]}
            /\ db' = db
            /\ inflight' \ inflight \subseteq
                  {[bar |-> processed', stage |-> "persist", result |-> r] : r \in hits}
            /\ (~HasDuplicateTs(TakeLast(new, lookback_bars)) /\ hits # {})
                  => inflight' # inflight

C31_FireAndForget == [][C31_PersistStep /\ C31_ProcessStep]_vars

\* the second live bar was examined and found a divergence while the inserts
\* of both bars were still pending
C31_Witness ==
    /\ processed = 2
    /\ Cardinality(pending) = 2
    /\ \E h \in inflight : h.bar = 2

(***************************************************************************)
(* Specification of the store: a load_bars call and a streaming Service    *)
(* writing the bars table of one symbol at the same time                   *)
(***************************************************************************)
\* the warm buffer of the Service: its last bars are inside the loader's range
StoreBuffer == [i \in 1..2 |-> [ts |-> Now - 3 + i, close |-> 2, ind |-> 1]]

\* the feed of the store specification: the next minute, the last bar again
\* (the same bar reaching a second monitor) or a late bar; the buffer stays
\* shorter than the lookback window, so prices play no part
StoreFeed(buf) == {b \in FeedBars(buf) : b.close = 2 /\ b.ind = 1}

InitStore ==
    /\ InitMgr /\ data_provider = "alpaca"
    /\ InitEnv
    /\ buffers = [s \in {"A"} |-> StoreBuffer]
    /\ use_trend_filter = TRUE /\ broadcast_cb = FALSE
    /\ signals = <<>> /\ broadcasts = <<>> /\ pending = {} /\ inflight = {}
    /\ processed = 0
    /\ db = SeedRows({StoreBuffer[i].ts : i \in 1..Len(StoreBuffer)})
    /\ parquet \in {{}, (Now - 9)..Now}
    /\ upstream = (Now - 5)..Now
    /\ use_parquet_cache \in BOOLEAN
    /\ ld = LdIdle

NextStore ==
    \/ NextLoader
    \/ \E bar \in StoreFeed(buffers["A"]) :
          ProcessBar("A", bar) /\ UNCHANGED <<mgrVars, parquet, upstream, use_parquet_cache, ld, fnVars, envVars>>
    \/ \E p \in pending, ok \in BOOLEAN :
          PersistBar(p, ok) /\ UNCHANGED <<mgrVars, parquet, upstream, use_parquet_cache, ld, fnVars, envVars>>

SpecStore == InitStore /\ [][NextStore]_vars

\* C18: under any interleaving of the loader's write-through and the live
\* raw-bar inserts, no two rows of the store have the same (symbol, timestamp);
\* a stored row is never changed or removed, so an insert of a present identity
\* leaves the stored bar as it was; the load_bars call never raises, and a
\* raw-bar insert touches neither the buffer nor the bar processing in flight.
C18_StoreIdentityUnique ==
    /\ [](\A r1, r2 \in db : r1.ts = r2.ts => r1 = r2)
    /\ [](ld.pc # "raised")
    /\ [][\A r \in db : r \in db']_vars
    /\ [][\A t \in StoreTs(db) :
             {r \in db' : r.ts = t} = {r \in db : r.ts = t}]_vars
    /\ [][pending' # pending /\ pending' \subseteq pending
             => /\ buffers' = buffers /\ inflight' = inflight
                /\ processed' = processed]_vars

\* C18 witness: the same bar was received twice and both raw-bar inserts ran,
\* the live row is stored, and a load_bars call has since written through a
\* frame holding that timestamp and returned.
C18_Witness ==
    /\ pending = {}
    /\ ld.pc = "done"
    /\ "db_write" \in SeqToSet(ld.log) /\ "db_write" \notin ld.failed
    /\ \E r \in db :
          /\ r.by = "live"
          /\ r.ts \in SeqToSet(ld.df)
          /\ \E i, j \in 1..Len(buffers["A"]) :
                i # j /\ buffers["A"][i].ts = r.ts /\ buffers["A"][j].ts = r.ts

(***************************************************************************)
(* Specification of the key function: _get_key applied to two requests     *)
(***************************************************************************)
MaxTickers == 2     \* longest symbol list of a request

\* symbols as the API accepts them: any string
KeyTickers == {<<"A">>, <<"B">>, <<"A", ",", "B">>}
KeyTickerLists ==
    UNION {[1..n -> KeyTickers] : n \in 1..MaxTickers}
KeyConfigs ==
    [tickers : KeyTickerLists, indicator : {<<"rsi">>, <<"macd">>},
     signal_type : {<<"hidden_bullish_divergence">>, <<"regular_bearish_divergence">>}]

GetKeyCall(a, b) ==
    /\ call.fn = "none"
    /\ call' = [fn |-> "_get_key", a |-> a, b |-> b,
                ka |-> GetKey(a.tickers, a.indicator, a.signal_type),
                kb |-> GetKey(b.tickers, b.indicator, b.signal_type)]
    /\ UNCHANGED <<mgrVars, ldVars, svcVars, envVars>>

InitK ==
    /\ InitMgr /\ data_provider = "alpaca"
    /\ InitEnv
    /\ db = {} /\ parquet = {} /\ upstream = {} /\ use_parquet_cache = FALSE
    /\ ld = LdIdle
    /\ buffers = <<>> /\ signals = <<>> /\ broadcasts = <<>> /\ pending = {}
    /\ inflight = {} /\ processed = 0
    /\ use_trend_filter = TRUE /\ broadcast_cb = FALSE

NextK == \E a, b \in KeyConfigs : GetKeyCall(a, b)

SpecKey == InitK /\ [][NextK]_vars

(***************************************************************************)
(* Claims about the key function (checked under SpecKey)                   *)
(***************************************************************************)
\* C16: two requests have the same key exactly when they have the same set of
\* symbols, the same indicator and the same signal type.
C16_KeyOfSymbolSet ==
    call.fn = "_get_key" =>
       ((/\ SeqToSet(call.a.tickers) = SeqToSet(call.b.tickers)
         /\ call.a.indicator = call.b.indicator
         /\ call.a.signal_type = call.b.signal_type)
        <=> call.ka = call.kb)


(***************************************************************************)
(* Specification of the detectors: one call of a divergence detector with  *)
(* the trend filter disabled                                               *)
(***************************************************************************)
DetectBars == 5     \* bars of the trailing part of the buffer

\* bars older than the trailing part: a low and a high that would be pivots
\* if the window reached them
OlderBars == << [ts |-> 2, close |-> 2, ind |-> 1], [ts |-> 4, close |-> 1, ind |-> 2],
               [ts |-> 6, close |-> 3, ind |-> 1] >>

\* the trailing part: DetectBars bars with the closes and indicator values of f
TrailingBars(f) ==
    [i \in 1..DetectBars |-> [ts |-> 6 + 2 * i, close |-> f[i][1], ind |-> f[i][2]]]

\* the arguments of a call: a detector of DETECTOR_MAP, a buffer, the lookback
\* and k
DetectArgs(st, older, f, k) ==
    [fn |-> "none", signal_type |-> st, buf |-> older \o TrailingBars(f),
     lookback |-> DetectBars, k |-> k]

\* detector(close, ind, lookback, k) applied to the arguments drawn
DetectCall ==
    /\ call.fn = "none"
    /\ call' = [fn |-> "detect", signal_type |-> call.signal_type, buf |-> call.buf,
                lookback |-> call.lookback, k |-> call.k,
                result |-> Detector(call.signal_type, call.buf, call.lookback, call.k)]
    /\ UNCHANGED <<mgrVars, ldVars, svcVars, envVars>>

InitDetect ==
    /\ InitRegistry /\ data_provider = "alpaca"
    /\ InitEnv
    /\ \E st \in DETECTOR_MAP, older \in {<<>>, OlderBars},
          f \in [1..DetectBars -> ClosePrices \X IndicatorValues],
          k \in 1..pivot_k :
          call = DetectArgs(st, older, f, k)
    /\ db = {} /\ parquet = {} /\ upstream = {} /\ use_parquet_cache = FALSE
    /\ ld = LdIdle
    /\ buffers = <<>> /\ signals = <<>> /\ broadcasts = <<>> /\ pending = {}
    /\ inflight = {} /\ processed = 0
    /\ use_trend_filter = FALSE /\ broadcast_cb = FALSE

NextDetect == DetectCall

SpecDetect == InitDetect /\ [][NextDetect]_vars

InitGate ==
    /\ InitRegistry /\ data_provider = "alpaca"
    /\ InitEnv
    /\ \E st \in DETECTOR_MAP,
          f \in [1..DetectBars -> ClosePrices \X IndicatorValues],
          k \in 1..pivot_k :
          call = DetectArgs(st, <<>>, f, k)
    /\ db = {} /\ parquet = {} /\ upstream = {} /\ use_parquet_cache = FALSE
    /\ ld = LdIdle
    /\ buffers = <<>> /\ signals = <<>> /\ broadcasts = <<>> /\ pending = {}
    /\ inflight = {} /\ processed = 0
    /\ use_trend_filter \in BOOLEAN /\ broadcast_cb = FALSE

SpecGate == InitGate /\ [][NextDetect]_vars

(***************************************************************************)
(* Claims about the trend gate (checked under SpecGate)                    *)
(***************************************************************************)
\* what the detector of the call reports when its trend gate passes
C36_UngatedResult ==
    LET win == TakeLast(call.buf, call.lookback)
        bullish == call.signal_type \in {"hidden_bullish_divergence",
                                         "regular_bullish_divergence"}
        priceHigher == call.signal_type \in {"hidden_bullish_divergence",
                                             "regular_bearish_divergence"}
        piv == IF bullish THEN FindPivotLows(Closes(win), call.k, TRUE)
               ELSE FindPivotHighs(Closes(win), call.k, TRUE)
    IN  Divergence(win, piv, priceHigher, TRUE)

\* C36: with the trend filter enabled and a window of fewer than
\* ema_period + 5 observations each of the four detectors returns no detection,
\* also when its pivot rule matches; with the filter disabled the gate passes
\* and the detector returns what its pivot rule gives.
C36_TrendGateFailsClosed ==
    call.fn = "detect" =>
        /\ (use_trend_filter
              /\ Len(TakeLast(call.buf, call.lookback)) < ema_period + 5)
              => call.result = NoResult
        /\ ~use_trend_filter => call.result = C36_UngatedResult

\* the filter is enabled, the window is short, the pivot rule of a hidden
\* bullish detector matches and the last price is above its EMA: no detection
C36_Witness ==
    /\ call.fn = "detect"
    /\ use_trend_filter
    /\ call.signal_type = "hidden_bullish_divergence"
    /\ Len(call.buf) < ema_period + 5
    /\ C36_UngatedResult.hit
    /\ BullTrendOkAnyLength(Closes(call.buf))
    /\ call.result = NoResult

(***************************************************************************)
(* Specification of the pivot finders: one call of find_pivot_lows or      *)
(* find_pivot_highs                                                        *)
(***************************************************************************)
MaxSeries == 5      \* longest series of a call
MaxK == 2           \* largest window k of a call

PivotValues == {1, 2, 3}
PivotSeries == UNION {[1..n -> PivotValues] : n \in 0..MaxSeries}

FindPivotLowsCall(close, k, strict) ==
    /\ call.fn = "none"
    /\ call' = [fn |-> "find_pivot_lows", close |-> close, k |-> k,
                strict |-> strict, result |-> FindPivotLows(close, k, strict)]
    /\ UNCHANGED <<mgrVars, ldVars, svcVars, envVars>>

FindPivotHighsCall(close, k, strict) ==
    /\ call.fn = "none"
    /\ call' = [fn |-> "find_pivot_highs", close |-> close, k |-> k,
                strict |-> strict, result |-> FindPivotHighs(close, k, strict)]
    /\ UNCHANGED <<mgrVars, ldVars, svcVars, envVars>>

NextPivot ==
    \/ \E close \in PivotSeries, k \in 0..MaxK, strict \in BOOLEAN :
          FindPivotLowsCall(close, k, strict)
    \/ \E close \in PivotSeries, k \in 0..MaxK, strict \in BOOLEAN :
          FindPivotHighsCall(close, k, strict)

SpecPivot == InitK /\ [][NextPivot]_vars

(***************************************************************************)
(* Claims about the pivot finders (checked under SpecPivot)                *)
(***************************************************************************)
\* C20: for a series of length n and window k the pivot-low finder returns, in
\* increasing order, exactly the positions i (counted from 0) with
\* k <= i < n - k whose value is, when strict, strictly less than every other
\* value at positions i-k..i+k and, when not strict, the minimum of those
\* positions; the first k and the last k positions are never returned; the
\* pivot-high finder is the mirror image.
C20_PivotFinder ==
    call.fn \in {"find_pivot_lows", "find_pivot_highs"} =>
       LET n == Len(call.close)
           k == call.k
           v(i) == call.close[i + 1]
           below(a, b) == IF call.fn = "find_pivot_lows" THEN a < b ELSE a > b
           returned == {call.result[a] - 1 : a \in 1..Len(call.result)}
           expected ==
              {i \in 0..(n - 1) :
                  /\ k <= i /\ i < n - k
                  /\ \A j \in ((i - k)..(i + k)) \ {i} :
                        IF call.strict THEN below(v(i), v(j))
                        ELSE below(v(i), v(j)) \/ v(i) = v(j)}
       IN  /\ \A a, b \in 1..Len(call.result) : a < b => call.result[a] < call.result[b]
           /\ returned = expected
           /\ \A i \in returned : i >= k /\ i <= n - 1 - k


(***************************************************************************)
(* Specification of the broadcast: websockets connecting and disconnecting *)
(* while broadcast_signal runs                                             *)
(***************************************************************************)
InitBroadcast ==
    /\ InitMgr /\ data_provider = "alpaca"
    /\ InitEnv
    /\ db = {} /\ parquet = {} /\ upstream = {} /\ use_parquet_cache = FALSE
    /\ ld = LdIdle
    /\ buffers = <<>> /\ signals = <<>> /\ broadcasts = <<>> /\ pending = {}
    /\ inflight = {} /\ processed = 0
    /\ use_trend_filter = TRUE /\ broadcast_cb = TRUE

SpecBroadcast == InitBroadcast /\ [][NextApi]_vars

(***************************************************************************)
(* Claims about the broadcast (checked under SpecBroadcast)                *)
(***************************************************************************)
\* C21: a broadcast attempts delivery to every receiver connected when it
\* starts, whatever fails and whoever connects or disconnects meanwhile: when
\* the broadcast is over, every receiver that was connected at its start and
\* is still connected has been sent the payload.
C21_BroadcastReachesAll ==
    bc.pc = "done" =>
       \A w \in bc.start :
           (ws_state[w] = "open" /\ w \in SeqToSet(active_connections))
           => w \in bc.attempted


(***************************************************************************)
(* Specification of the indicators: one call of RSI.compute or TSI.compute *)
(***************************************************************************)
InitIndicator ==
    /\ InitRegistry /\ data_provider = "alpaca"
    /\ InitEnv
    /\ \E ind \in {"rsi", "tsi"}, n \in 0..MaxSeries :
          \E close \in [1..n -> PivotValues] :
             call = [fn |-> "none", indicator |-> ind, close |-> close]
    /\ db = {} /\ parquet = {} /\ upstream = {} /\ use_parquet_cache = FALSE
    /\ ld = LdIdle
    /\ buffers = <<>> /\ signals = <<>> /\ broadcasts = <<>> /\ pending = {}
    /\ inflight = {} /\ processed = 0
    /\ use_trend_filter = TRUE /\ broadcast_cb = FALSE

NextIndicator == RsiCall \/ TsiCall

SpecIndicator == InitIndicator /\ [][NextIndicator]_vars

(***************************************************************************)
(* Claims about the indicators (checked under SpecIndicator)               *)
(***************************************************************************)
\* C22: for a price series whose deltas are all non-negative (the smoothed
\* loss is 0 at every position) the RSI is 100 at every position.
C22_RsiNoLossIsHundred ==
    (call.fn = "rsi"
       /\ \A i \in 1..(Len(call.close) - 1) : call.close[i + 1] >= call.close[i])
    => \A t \in 1..Len(call.close) : FracEq(call.result[t], Frac(100, 1))

\* C23: at every position where the doubly smoothed absolute momentum is 0 or
\* undefined, the TSI is exactly 0 (never a value copied back from a later
\* position).
C23_TsiZeroWhereUndefined ==
    call.fn = "tsi" =>
       \A t \in 1..Len(call.close) :
           (t = 1 \/ Ema2AbsMomentum(call.close, tsi_long, tsi_short, t) = 0)
           => FracEq(call.result[t], Frac(0, 1))


(***************************************************************************)
(* Specification of the run: the Manager, one Service configuration, the   *)
(* feed thread and the event loop                                          *)
(***************************************************************************)
InitR == Init /\ data_provider = "alpaca"

SpecRun == InitR /\ [][NextRun]_vars


\* C24: a Service that has been cancelled (a cancellation request is pending
\* or its task has ended) appends and examines no further bar: no entry of a
\* Service's record was made after its cancellation.
C24_NoBarAfterCancel ==
    \A t \in 1..MaxTasks : \A i \in 1..Len(svclog[t]) : ~svclog[t][i].late


\* C25: every bar the feed delivers is handed to the event loop captured by
\* subscribe_bars, or dropped when there is none; bar processing runs on that
\* loop only, never on the feed thread, and a dropped bar is never processed.
C25_Logged == UNION {{svclog[t][i].bar : i \in 1..Len(svclog[t])} : t \in 1..MaxTasks}

C25_Queued == {loopq[i].bar : i \in 1..Len(loopq)}

C25_OnLoopOnly ==
    /\ \A t \in 1..MaxTasks : \A i \in 1..Len(svclog[t]) : svclog[t][i].thread = "loop"
    /\ dropped \cap (C25_Logged \cup C25_Queued) = {}
    /\ C25_Logged \cup C25_Queued \cup dropped = 1..delivered

C25_HandOverStep ==
    delivered' = delivered + 1 =>
        /\ svclog' = svclog
        /\ IF main_loop
           THEN /\ Len(loopq') = Len(loopq) + 1
                /\ loopq'[Len(loopq')].bar = delivered'
                /\ dropped' = dropped
           ELSE /\ loopq' = loopq
                /\ dropped' = dropped \cup {delivered'}

C25_LoopOnly == [](C25_OnLoopOnly) /\ [][C25_HandOverStep]_vars

\* one bar was processed on the loop and a later one, delivered when the
\* provider had no loop any more, was dropped
C25_Witness ==
    /\ dropped # {}
    /\ \E t \in 1..MaxTasks : \E i \in 1..Len(svclog[t]) : svclog[t][i].thread = "loop"


\* C26: for each symbol of a Service, bars are appended and examined in the
\* order the feed delivered them, whatever the interleaving of deliveries, loop
\* steps and suspended persist/broadcast of earlier bars; one step of the loop
\* appends and examines exactly one bar.
C26_InFeedOrder ==
    \A t \in 1..MaxTasks : \A i, j \in 1..Len(svclog[t]) :
        (i < j /\ svclog[t][i].sym = svclog[t][j].sym)
            => svclog[t][i].bar < svclog[t][j].bar

C26_OneBarPerStep ==
    svclog' # svclog =>
        \E t \in 1..MaxTasks :
            /\ Len(svclog'[t]) = Len(svclog[t]) + 1
            /\ SubSeq(svclog'[t], 1, Len(svclog[t])) = svclog[t]
            /\ \A u \in 1..MaxTasks \ {t} : svclog'[u] = svclog[u]

C26_PerSymbolOrder == [](C26_InFeedOrder) /\ [][C26_OneBarPerStep]_vars

\* two bars of one symbol were processed while the on_bar coroutine of the
\* first, which was a hit, was still suspended in persistence or broadcast
C26_Witness ==
    \E t \in 1..MaxTasks : \E i, j \in 1..Len(svclog[t]) :
        /\ i < j
        /\ svclog[t][i].sym = svclog[t][j].sym
        /\ [task |-> t, bar |-> svclog[t][i].bar] \in suspended


\* C27: a Service moves only forward through initializing, warm, streaming
\* and cancelled or failed; it calls subscribe_bars at most once, exactly when
\* it starts streaming and only after load_bars has returned for every
\* configured symbol, whatever the loads returned; no live bar is queued for
\* it or processed by it before that subscription.
C27_Stage(ts, w, t) ==
    IF t > Len(ts) THEN 0
    ELSE CASE ts[t].phase = "loading" ->
                (IF Len(w[t]) = Len(ts[t].tickers) THEN 2 ELSE 1)
           [] ts[t].phase = "streaming" -> 3
           [] ts[t].phase = "ended" -> 4

C27_StageInv ==
    \A t \in 1..Len(tasks) :
        /\ tasks[t].phase = "streaming" => nsub[t] = 1
        /\ nsub[t] <= 1
        /\ tasks[t].phase = "loading" => nsub[t] = 0
        /\ tasks[t].phase = "ended" => tasks[t].status \in {"cancelled", "failed"}
        /\ Len(warm[t]) <= Len(tasks[t].tickers)
        /\ (svclog[t] # <<>> \/ \E i \in 1..Len(loopq) : loopq[i].task = t)
              => nsub[t] = 1
        /\ (tasks[t].status = "running" /\ ~tasks[t].cancel
              /\ tasks[t].phase = "loading"
              /\ Len(warm[t]) = Len(tasks[t].tickers))
              => ENABLED RunSubscribe(t)

C27_StageStep ==
    \A t \in 1..MaxTasks :
        /\ C27_Stage(tasks', warm', t) >= C27_Stage(tasks, warm, t)
        /\ nsub'[t] # nsub[t] =>
              /\ nsub'[t] = nsub[t] + 1
              /\ C27_Stage(tasks, warm, t) = 2
              /\ C27_Stage(tasks', warm', t) = 3

C27_ForwardLifecycle == [](C27_StageInv) /\ [][C27_StageStep]_vars

\* a Service whose loads all returned nothing has subscribed and has
\* processed a live bar
C27_Witness ==
    \E t \in 1..Len(tasks) :
        /\ nsub[t] = 1
        /\ \A i \in 1..Len(warm[t]) : warm[t][i] = "empty"
        /\ Len(warm[t]) = Len(tasks[t].tickers)
        /\ svclog[t] # <<>>


(***************************************************************************)
(* Specification of the provider tier's range: one computation of the      *)
(* widened start for a lookback and a safety margin                        *)
(***************************************************************************)
InitM ==
    /\ InitMargin
    /\ InitRegistry /\ data_provider = "alpaca"
    /\ InitEnv
    /\ db = {} /\ parquet = {} /\ upstream = {} /\ use_parquet_cache = FALSE
    /\ ld = LdIdle
    /\ buffers = <<>> /\ signals = <<>> /\ broadcasts = <<>> /\ pending = {}
    /\ inflight = {} /\ processed = 0
    /\ use_trend_filter = TRUE /\ broadcast_cb = FALSE

SpecMargin == InitM /\ [][NextMargin]_vars

(***************************************************************************)
(* Claims about the provider tier's range (checked under SpecMargin)       *)
(***************************************************************************)
\* C35: the provider is queried with the requested end and with a start
\* strictly earlier than the requested start, for every lookback of at least
\* one day and every safety margin above 1.
C35_FetchRangeStrictlyWider ==
    call.fn = "extended_start" =>
        /\ call.fetch_end = call.end
        /\ call.fetch_start < call.start


\* C40: a Service whose task has failed while no stop was made of it (its
\* entry is still registered and no stop_all is under way) appends and examines
\* no further bar.
C40_NoBarAfterTermination ==
    [][\A t \in 1..Len(tasks) :
          (/\ tasks[t].status = "failed"
           /\ sa.pc = "idle"
           /\ \E i \in 1..Len(monitors) : monitors[i].task = t)
          => svclog'[t] = svclog[t]]_vars


====
